---- MODULE Spec2Model ----
(***************************************************************************)
(* Admission control of the STT service: the GPU semaphore built by        *)
(* lifespan (main.py), the synchronous /api/v1/transcribe handler, the     *)
(* /invocations handler with its background task and pending counter       *)
(* (controllers/transcription.py) and the Redis queue worker that runs     *)
(* micro-batches under the same semaphore (main.py).                       *)
(*                                                                         *)
(* One action is one uninterrupted run of a coroutine between two          *)
(* suspension points of the asyncio event loop.  asyncio.Semaphore and     *)
(* asyncio.Lock are modelled as CPython implements them: acquire() does    *)
(* not suspend when a slot is free, release() hands the slot to the first  *)
(* waiter whose future is still pending.                                   *)
(*                                                                         *)
(* Three further specifications look at one component each, with the       *)
(* application serving: CollectSpec at _collect_job_batch and the Redis    *)
(* list (main.py), BatchSpec at TranscriptionService.process_batch, and    *)
(* AlignSpec at the alignment of transcript segments with speaker turns    *)
(* (utils/transcription_utils.py, services/stt_service.py).                *)
(*                                                                         *)
(* ScaleSpec looks at the control plane (gpu_queue_api.py): its lifespan,  *)
(* submit_job and queue_autoscaler_loop, next to a worker process that     *)
(* boots.  StatusSpec is the application with the router of                *)
(* controllers/queue.py included, which main.py leaves out.                *)
(***************************************************************************)
EXTENDS Integers, Sequences, FiniteSets, TLC

\* ---- bounds -------------------------------------------------------------
MAX_CONCURRENCY == 1      \* settings.max_concurrency (env MAX_CONCURRENCY)
MAX_BATCH_SIZE == 2       \* settings.max_batch_size (env MAX_BATCH_SIZE)
MaxReq == 2               \* HTTP requests and background jobs in flight at once
MaxDrift == 0             \* /invocations is not called once the counter is below -MaxDrift
MaxPush == 3              \* payloads producers push onto the Redis list
QUEUE_BRPOP_TIMEOUT == 2  \* settings.queue_brpop_timeout, in clock ticks
BATCH_TIMEOUT == 2        \* settings.batch_timeout, in clock ticks
MaxSeg == 3               \* transcript segments of one audio
MaxTurn == 2              \* speaker turns of one audio
MaxTime == 3              \* length of the audio, in seconds
QUEUE_POLL_INTERVAL == 1  \* env QUEUE_POLL_INTERVAL, in ticks of 5 s
QUEUE_IDLE_TIMEOUT == 2   \* env QUEUE_IDLE_TIMEOUT, in ticks of 5 s
MaxDepth == 2             \* jobs on the Redis list at once, seen from the control plane
MaxSpeaker == 10          \* largest speaker number k of a pipeline label SPEAKER_kk

Req == 1..MaxReq
WORKER == 0               \* task id of queue_worker_task
Tasks == Req \cup {WORKER}

VARIABLES
    phase,              \* position of lifespan
    service,            \* app.state.transcription_service is not None
    gpu_semaphore,      \* app.state.gpu_semaphore is not None
    sem_value,          \* Semaphore._value
    sem_waiters,        \* Semaphore._waiters: <<[t, fut]>>, fut in pending/granted/cancelled
    pending_lock,       \* app.state.pending_lock is not None
    lock_owner,         \* asyncio.Lock: the task that has locked pending_lock, or None
    lock_waiters,       \* Lock._waiters: <<[t, fut]>>, fut in pending/granted
    pending_requests,   \* app.state.pending_requests
    queue_worker_enabled, \* QUEUE_WORKER_ENABLED
    task,               \* per request in flight: handler / background task
    resp,               \* the last HTTP response sent by a handler
    worker,             \* queue_worker_task
    redis_ping,         \* main.py lifespan: outcome of "await redis_client.ping()"
    report,             \* the last report queue_status returned
    redis_queue,        \* the Redis list QUEUE_NAME; Head is its right end
    pushed,             \* payloads pushed by producers so far
    batch,              \* _collect_job_batch: the local list "batch"
    collect_pc,         \* position of queue_worker / _collect_job_batch
    elapsed,            \* loop.time() minus the time the blocking pop began
    deadline,           \* _collect_job_batch: "deadline", on the same clock
    consumed,           \* ids of the jobs put into batches so far, in that order
    batch_requests,     \* process_batch: its argument
    prep_results,       \* process_batch: "prep_results"
    completion_order,   \* indexes in the order as_completed yielded them
    results,            \* process_batch: "results"
    computed,           \* jobs _process_single_prepared was called for
    batch_pc,           \* position of process_batch
    in_compute,         \* jobs _process_single_prepared is running for
    dispatched,         \* results the dispatcher has received: [path, job]
    sync_result,        \* what TranscriptionService.process gave for a request
    text_df,            \* transcript segments (id, start, end, text)
    speaker_df,         \* speaker turns (start, end, speaker)
    full_df,            \* result of combine_whisper_and_pyannote
    combine_text,       \* result of combine_consecutive_speakers
    diarized_output,    \* process_with_diarization: first component
    text,               \* process_with_diarization: plain transcript
    align_pc,           \* position of process_with_diarization / diarize
    tracks,             \* diarize: the tracks of the pipeline's annotation
    seg_info_list,      \* diarize: "seg_info_list"
    control_phase,      \* gpu_queue_api.py: position of lifespan
    control_ping,       \* gpu_queue_api.py lifespan: outcome of the ping
    autoscaler_task,    \* None, or the position of queue_autoscaler_loop
    queue_depth,        \* length of the Redis list QUEUE_NAME
    queue_length,       \* queue_autoscaler_loop: "queue_length", the last sample
    clock,              \* time.time(), in ticks
    idle_start_time,    \* None, or the reading of time.time() it holds
    shutdown_requested, \* the global of that name
    pod_running,        \* the global of that name
    scale_downs         \* calls of trigger_runpod_shutdown since the last sample > 0

gatevars == <<phase, service, gpu_semaphore, sem_value, sem_waiters, pending_lock,
              lock_owner, lock_waiters, pending_requests, queue_worker_enabled, task, resp, worker,
              redis_ping, report>>
collectvars == <<redis_queue, pushed, batch, collect_pc, elapsed, deadline,
                 consumed>>
batchvars == <<batch_requests, prep_results, completion_order, results,
               computed, batch_pc, in_compute, dispatched, sync_result>>
alignvars == <<text_df, speaker_df, full_df, combine_text, diarized_output,
               text, align_pc, tracks, seg_info_list>>
scalevars == <<control_phase, control_ping, autoscaler_task, queue_depth,
               queue_length, clock, idle_start_time, shutdown_requested,
               pod_running, scale_downs>>

vars == <<gatevars, collectvars, batchvars, alignvars, scalevars>>

semvars == <<sem_value, sem_waiters>>
lifevars == <<phase, service, gpu_semaphore, queue_worker_enabled, pending_lock,
              redis_ping>>
lockvars == <<lock_owner, lock_waiters>>
appvars == <<lifevars, lockvars>>

\* ---- asyncio.Semaphore ----------------------------------------------------

locked_off_by_one(value, waiters) ==
    value < 0 \/ \E i \in 1..Len(waiters) : waiters[i].fut # "cancelled"

\* Semaphore.locked(): no free slot, or somebody not cancelled is queued.
locked(value, waiters) ==
    value = 0 \/ \E i \in 1..Len(waiters) : waiters[i].fut # "cancelled"

RECURSIVE FirstPending(_, _)
FirstPending(waiters, i) ==
    IF i > Len(waiters) THEN 0
    ELSE IF waiters[i].fut = "pending" THEN i
    ELSE FirstPending(waiters, i + 1)

RECURSIVE LastPending(_, _)
LastPending(waiters, i) ==
    IF i = 0 THEN 0
    ELSE IF waiters[i].fut = "pending" THEN i
    ELSE LastPending(waiters, i - 1)

wake_up_last(value, waiters) ==
    LET i == LastPending(waiters, Len(waiters)) IN
    IF i = 0 THEN [value |-> value, waiters |-> waiters, woke |-> FALSE]
    ELSE [value |-> value - 1,
          waiters |-> [waiters EXCEPT ![i].fut = "granted"],
          woke |-> TRUE]

\* Semaphore._wake_up_next(): give one slot to the first waiter not yet done.
wake_up_next(value, waiters) ==
    LET i == FirstPending(waiters, 1) IN
    IF i = 0 THEN [value |-> value, waiters |-> waiters, woke |-> FALSE]
    ELSE [value |-> value - 1,
          waiters |-> [waiters EXCEPT ![i].fut = "granted"],
          woke |-> TRUE]

\* Semaphore.release()
release(value, waiters) == wake_up_next(value + 1, waiters)

\* the loop "while self._value > 0: if not self._wake_up_next(): break"
RECURSIVE wake_while_free(_, _)
wake_while_free(value, waiters) ==
    IF value > 0
    THEN LET w == wake_up_next(value, waiters) IN
         IF w.woke THEN wake_while_free(w.value, w.waiters)
         ELSE [value |-> value, waiters |-> waiters]
    ELSE [value |-> value, waiters |-> waiters]

RemoveWaiter(waiters, t) == SelectSeq(waiters, LAMBDA w : w.t # t)

FutOf(t) ==
    IF \E i \in 1..Len(sem_waiters) : sem_waiters[i].t = t
    THEN (CHOOSE w \in {sem_waiters[i] : i \in 1..Len(sem_waiters)} : w.t = t).fut
    ELSE "none"

\* Semaphore.acquire() up to its first suspension point, called by task t:
\* entered = TRUE when the slot is taken without suspending.
acquire(value, waiters, t) ==
    IF ~locked(value, waiters)
    THEN [value |-> value - 1, waiters |-> waiters, entered |-> TRUE]
    ELSE [value |-> value,
          waiters |-> Append(waiters, [t |-> t, fut |-> "pending"]),
          entered |-> FALSE]

\* Semaphore.acquire() after "await fut" returned normally for task t.
acquire_resume(value, waiters, t) ==
    wake_while_free(value, RemoveWaiter(waiters, t))

\* Semaphore.acquire() when CancelledError is thrown into "await fut".
acquire_cancelled(value, waiters, t, fut) ==
    LET rest == RemoveWaiter(waiters, t) IN
    IF fut = "granted"
    THEN LET r == wake_up_next(value + 1, rest) IN
         [value |-> r.value, waiters |-> r.waiters]
    ELSE [value |-> value, waiters |-> rest]

aexit_only_on_return(value, waiters, outcome) ==
    IF outcome = "ok" THEN release(value, waiters)
    ELSE [value |-> value, waiters |-> waiters, woke |-> FALSE]

\* "async with gpu_semaphore": __aexit__ releases the slot however the body
\* ended (return, HTTPException, other exception, CancelledError).
aexit(value, waiters, outcome) == release(value, waiters)

\* ---- initial state --------------------------------------------------------

NoTask == [kind |-> "none", url |-> FALSE, file |-> FALSE, pc |-> "idle"]
NoResp == [status |-> "none", pos |-> 0]
NoReport == [max_concurrency |-> 0, available_slots |-> 0,
             requests_in_queue |-> 0, active_requests |-> 0, sent |-> FALSE]
None == 0 - 1
NoResult == [called |-> FALSE]

\* app = FastAPI(...): app.state is empty.  lifespan never assigns
\* app.state.pending_lock or app.state.pending_requests, and no other code
\* does; readers use getattr(..., None) / getattr(..., 0).
InitApp(lock) ==
    /\ phase = "init"
    /\ service = FALSE
    /\ gpu_semaphore = FALSE
    /\ sem_value = 0
    /\ sem_waiters = <<>>
    /\ pending_lock = lock
    /\ lock_owner = None
    /\ lock_waiters = <<>>
    /\ pending_requests = 0
    /\ queue_worker_enabled \in BOOLEAN
    /\ task = [r \in Req |-> NoTask]
    /\ resp = NoResp
    /\ worker = [pc |-> "none", batch |-> 0, cancel |-> FALSE, thread |-> FALSE]
    /\ redis_ping = "none"
    /\ report = NoReport

\* no queue traffic: the Redis list is empty and the consumer is not looked at.
CollectIdle ==
    /\ redis_queue = <<>>
    /\ pushed = 0
    /\ batch = <<>>
    /\ collect_pc = "off"
    /\ elapsed = 0
    /\ deadline = 0
    /\ consumed = <<>>

\* no call of process_batch is looked at.
BatchIdle ==
    /\ batch_requests = <<>>
    /\ prep_results = <<>>
    /\ completion_order = <<>>
    /\ results = <<>>
    /\ computed = <<>>
    /\ batch_pc = "off"
    /\ in_compute = {}
    /\ dispatched = {}
    /\ sync_result = NoResult

\* no call of process_with_diarization is looked at.
AlignIdle ==
    /\ text_df = <<>>
    /\ speaker_df = <<>>
    /\ full_df = <<>>
    /\ combine_text = <<>>
    /\ diarized_output = <<>>
    /\ text = <<>>
    /\ align_pc = "off"
    /\ tracks = <<>>
    /\ seg_info_list = <<>>

\* the control plane (gpu_queue_api.py) is not looked at.
ScaleIdle ==
    /\ control_phase = "off"
    /\ control_ping = "none"
    /\ autoscaler_task = "None"
    /\ queue_depth = 0
    /\ queue_length = None
    /\ clock = 0
    /\ idle_start_time = None
    /\ shutdown_requested = FALSE
    /\ pod_running = FALSE
    /\ scale_downs = 0

Init == InitApp(FALSE) /\ CollectIdle /\ BatchIdle /\ AlignIdle /\ ScaleIdle

\* the application state process_request_background is written for: a
\* pending lock and a pending counter exist.
InitPending == InitApp(TRUE) /\ CollectIdle /\ BatchIdle /\ AlignIdle /\ ScaleIdle

\* ---- lifespan (main.py) ---------------------------------------------------

initial_slots_one_short == MAX_CONCURRENCY - 1

\* asyncio.Semaphore(MAX_CONCURRENCY)
initial_slots == MAX_CONCURRENCY

ping_raises_auth_only(ping) == ping = "auth_error"

\* "await redis_client.ping()" under "except AuthenticationError" and
\* "except RedisError": either way lifespan raises RuntimeError.
ping_raises(ping) == ping \in {"auth_error", "redis_error"}

\* lifespan up to "yield": preload the model, publish the service and the
\* semaphore, ping Redis and start the queue worker when it is enabled.
Startup ==
    /\ phase = "init"
    /\ \E preload_ok \in BOOLEAN, ping \in {"ok", "auth_error", "redis_error"} :
        IF ~preload_ok
        THEN /\ phase' = "failed"
             /\ UNCHANGED <<service, gpu_semaphore, sem_value, worker, redis_ping>>
        ELSE /\ service' = TRUE
             /\ gpu_semaphore' = TRUE
             /\ sem_value' = initial_slots
             /\ IF queue_worker_enabled
                THEN /\ redis_ping' = ping
                     /\ IF ping_raises(ping)
                        THEN /\ phase' = "failed"
                             /\ UNCHANGED worker
                        ELSE /\ worker' = [worker EXCEPT !.pc = "collect"]
                             /\ phase' = "serving"
                ELSE /\ phase' = "serving"
                     /\ UNCHANGED <<worker, redis_ping>>
    /\ UNCHANGED <<sem_waiters, pending_lock, lockvars, pending_requests,
                   queue_worker_enabled, task, resp>>
    /\ UNCHANGED <<report, collectvars, batchvars, alignvars, scalevars>>

\* Task.cancel() on the worker: a pending semaphore future is cancelled at
\* once, the CancelledError itself is delivered when the task next runs.
cancel_worker(waiters) ==
    [i \in 1..Len(waiters) |->
        IF waiters[i].t = WORKER /\ waiters[i].fut = "pending"
        THEN [waiters[i] EXCEPT !.fut = "cancelled"]
        ELSE waiters[i]]

\* lifespan after "yield", up to "await queue_worker_task"; without a worker
\* task there is no suspension point and the whole teardown runs here.
ShutdownBegin ==
    /\ phase = "serving"
    /\ IF worker.pc = "none"
       THEN /\ phase' = "stopped"
            /\ service' = FALSE
            /\ gpu_semaphore' = FALSE
            /\ UNCHANGED <<worker, sem_waiters>>
       ELSE /\ phase' = "stopping"
            /\ worker' = [worker EXCEPT
                  !.cancel = (worker.pc \notin {"faulted"})]
            /\ sem_waiters' = cancel_worker(sem_waiters)
            /\ UNCHANGED <<service, gpu_semaphore>>
    /\ UNCHANGED <<sem_value, pending_lock, lockvars, pending_requests,
                   queue_worker_enabled, task, resp, redis_ping>>
    /\ UNCHANGED <<report, collectvars, batchvars, alignvars, scalevars>>

\* "await queue_worker_task" returns: CancelledError is swallowed and the
\* application state is cleared; any other exception of the worker task
\* propagates out of lifespan and the clearing is skipped.
ShutdownEnd ==
    /\ phase = "stopping"
    /\ worker.pc \in {"cancelled", "faulted"}
    /\ phase' = "stopped"
    /\ IF worker.pc = "cancelled"
       THEN service' = FALSE /\ gpu_semaphore' = FALSE
       ELSE UNCHANGED <<service, gpu_semaphore>>
    /\ UNCHANGED <<sem_value, sem_waiters, pending_lock, lockvars,
                   pending_requests, queue_worker_enabled, task, resp, worker,
                   redis_ping>>
    /\ UNCHANGED <<report, collectvars, batchvars, alignvars, scalevars>>

\* ---- queue worker (main.py) -----------------------------------------------

WorkerCollect_ungated ==
    /\ worker.pc = "collect"
    /\ ~worker.cancel
    /\ \E n \in 1..MAX_BATCH_SIZE :
        worker' = [worker EXCEPT !.batch = n, !.pc = "run", !.thread = TRUE]
    /\ UNCHANGED <<appvars, semvars, pending_requests, task, resp>>
    /\ UNCHANGED <<report, collectvars, batchvars, alignvars, scalevars>>

\* queue_worker: _collect_job_batch returned n >= 1 jobs (an empty batch
\* loops back without changing anything); _process_job_batch enters
\* "async with semaphore".
WorkerCollect ==
    /\ worker.pc = "collect"
    /\ ~worker.cancel
    /\ \E n \in 1..MAX_BATCH_SIZE :
        LET a == acquire(sem_value, sem_waiters, WORKER) IN
        /\ sem_value' = a.value
        /\ sem_waiters' = a.waiters
        /\ worker' = [worker EXCEPT !.batch = n,
                        !.pc = IF a.entered THEN "run" ELSE "wait",
                        !.thread = a.entered]
    /\ UNCHANGED <<appvars, pending_requests, task, resp>>
    /\ UNCHANGED <<report, collectvars, batchvars, alignvars, scalevars>>

\* the semaphore future of the worker was granted: acquire() returns and
\* process_batch starts in the thread pool (or CancelledError is thrown).
WorkerResume ==
    /\ worker.pc = "wait"
    /\ FutOf(WORKER) = "granted"
    /\ ~worker.cancel
    /\ LET a == acquire_resume(sem_value, sem_waiters, WORKER) IN
        /\ sem_value' = a.value
        /\ sem_waiters' = a.waiters
    /\ worker' = [worker EXCEPT !.pc = "run", !.thread = TRUE]
    /\ UNCHANGED <<appvars, pending_requests, task, resp>>
    /\ UNCHANGED <<report, collectvars, batchvars, alignvars, scalevars>>

\* process_batch returned (per-job errors are inside the results) or an
\* unexpected fault escaped it; "async with" releases the slot either way.
WorkerFinish ==
    /\ worker.pc = "run"
    /\ ~worker.cancel
    /\ \E outcome \in {"ok", "fault"} :
        LET a == aexit(sem_value, sem_waiters, outcome) IN
        /\ worker' = [worker EXCEPT !.batch = 0, !.thread = FALSE,
                        !.pc = IF outcome = "ok" THEN "collect" ELSE "faulted"]
        /\ sem_value' = a.value
        /\ sem_waiters' = a.waiters
    /\ UNCHANGED <<appvars, pending_requests, task, resp>>
    /\ UNCHANGED <<report, collectvars, batchvars, alignvars, scalevars>>

\* CancelledError delivered to the worker at the await it is suspended in:
\* the blocking pop, the semaphore future, or run_in_threadpool (the thread
\* keeps running process_batch, the coroutine leaves "async with").
WorkerCancelled ==
    /\ worker.cancel
    /\ worker.pc \in {"collect", "wait", "run"}
    /\ LET a == IF worker.pc = "wait"
                THEN acquire_cancelled(sem_value, sem_waiters, WORKER,
                                       FutOf(WORKER))
                ELSE IF worker.pc = "run"
                THEN aexit(sem_value, sem_waiters, "cancelled")
                ELSE [value |-> sem_value, waiters |-> sem_waiters] IN
        /\ sem_value' = a.value
        /\ sem_waiters' = a.waiters
    /\ worker' = [worker EXCEPT !.pc = "cancelled", !.cancel = FALSE]
    /\ UNCHANGED <<appvars, pending_requests, task, resp>>
    /\ UNCHANGED <<report, collectvars, batchvars, alignvars, scalevars>>

\* the abandoned thread of a cancelled worker finishes process_batch.
WorkerThreadDone ==
    /\ worker.pc = "cancelled"
    /\ worker.thread
    /\ worker' = [worker EXCEPT !.thread = FALSE, !.batch = 0]
    /\ UNCHANGED <<appvars, semvars, pending_requests, task, resp>>
    /\ UNCHANGED <<report, collectvars, batchvars, alignvars, scalevars>>

\* ---- request handlers (controllers/transcription.py) ------------------------

\* a request takes the lowest free slot; uvicorn stops serving when lifespan
\* startup fails.
CanArrive(r) ==
    /\ task[r].pc = "idle"
    /\ \A q \in Req : q < r => task[q].pc # "idle"
    /\ phase # "failed"

not_ready_unchecked == FALSE

\* "if transcription_service is None: raise HTTPException(503)"
not_ready == ~service

\* what TranscriptionService.process can do for a body: without audio_url it
\* raises HTTPException(400); otherwise it returns, or audio processing
\* raises an HTTPException, or some other exception escapes.
ProcessOutcomes(url) ==
    IF ~url THEN {"http_400"} ELSE {"ok", "http_exc", "exc"}

\* transcribe(): from the entry of the handler to its first suspension
\* point (the semaphore future, or run_in_threadpool once the slot is taken).
Transcribe(r) ==
    /\ CanArrive(r)
    /\ \E url \in BOOLEAN, file \in BOOLEAN :
        LET me == [NoTask EXCEPT !.kind = "sync", !.url = url, !.file = file]
            a == acquire(sem_value, sem_waiters, r) IN
        IF not_ready
        THEN /\ resp' = [status |-> "503", pos |-> 0]
             /\ UNCHANGED <<task, semvars>>
        ELSE IF ~url /\ ~file
        THEN /\ resp' = [status |-> "400", pos |-> 0]
             /\ UNCHANGED <<task, semvars>>
        ELSE IF gpu_semaphore
        THEN /\ sem_value' = a.value
             /\ sem_waiters' = a.waiters
             /\ task' = [task EXCEPT ![r] =
                    [me EXCEPT !.pc = IF a.entered THEN "run" ELSE "wait"]]
             /\ UNCHANGED resp
        ELSE /\ task' = [task EXCEPT ![r] = [me EXCEPT !.pc = "run_nogate"]]
             /\ UNCHANGED <<resp, semvars>>
    /\ UNCHANGED <<appvars, pending_requests, worker>>
    /\ UNCHANGED <<report, collectvars, batchvars, alignvars, scalevars>>

\* transcribe(): the semaphore future was granted, acquire() returns and
\* process starts in the thread pool.
SyncResume(r) ==
    /\ task[r].kind = "sync"
    /\ task[r].pc = "wait"
    /\ FutOf(r) = "granted"
    /\ LET a == acquire_resume(sem_value, sem_waiters, r) IN
        /\ sem_value' = a.value
        /\ sem_waiters' = a.waiters
    /\ task' = [task EXCEPT ![r].pc = "run"]
    /\ UNCHANGED <<appvars, pending_requests, resp, worker>>
    /\ UNCHANGED <<report, collectvars, batchvars, alignvars, scalevars>>

\* status of the synchronous response for an outcome of process; on the
\* ungated path "except Exception" also turns an HTTPException into 500.
SyncStatus(outcome, gated) ==
    IF outcome = "ok" THEN "200"
    ELSE IF ~gated THEN "500"
    ELSE IF outcome = "http_400" THEN "400"
    ELSE IF outcome = "http_exc" THEN "http_exc"
    ELSE "500"

\* transcribe(): process finished in the thread pool; "async with" releases
\* the slot on return and on every exception, then the response is sent.
SyncFinish(r) ==
    /\ task[r].kind = "sync"
    /\ task[r].pc \in {"run", "run_nogate"}
    /\ \E outcome \in ProcessOutcomes(task[r].url) :
        /\ resp' = [status |-> SyncStatus(outcome, task[r].pc = "run"),
                    pos |-> 0]
        /\ IF task[r].pc = "run"
           THEN LET a == aexit(sem_value, sem_waiters, outcome) IN
                /\ sem_value' = a.value
                /\ sem_waiters' = a.waiters
           ELSE UNCHANGED semvars
    /\ task' = [task EXCEPT ![r] = NoTask]
    /\ UNCHANGED <<appvars, pending_requests, worker>>
    /\ UNCHANGED <<report, collectvars, batchvars, alignvars, scalevars>>

Invocations_awaits_gate(r) ==
    /\ CanArrive(r)
    /\ pending_requests >= -MaxDrift
    /\ \E url \in BOOLEAN, file \in BOOLEAN :
        LET me == [NoTask EXCEPT !.kind = "inv", !.url = url, !.file = file]
            current_queue_size == IF pending_lock THEN pending_requests ELSE 0
            a == acquire(sem_value, sem_waiters, r) IN
        IF not_ready
        THEN /\ resp' = [status |-> "503", pos |-> 0]
             /\ UNCHANGED <<task, semvars>>
        ELSE IF ~url /\ ~file
        THEN /\ resp' = [status |-> "400", pos |-> 0]
             /\ UNCHANGED <<task, semvars>>
        ELSE /\ sem_value' = a.value
             /\ sem_waiters' = a.waiters
             /\ task' = [task EXCEPT ![r] =
                    [me EXCEPT !.pc = IF a.entered THEN "run" ELSE "wait"]]
             /\ resp' = [status |-> "accepted", pos |-> current_queue_size + 1]
    /\ UNCHANGED <<appvars, pending_requests, worker>>
    /\ UNCHANGED <<report, collectvars, batchvars, alignvars, scalevars>>

\* invocations(): the whole handler; it has no suspension point (the
\* pending lock is always free when it is taken, see BgStart).
Invocations(r) ==
    /\ CanArrive(r)
    /\ pending_requests >= -MaxDrift
    /\ \E url \in BOOLEAN, file \in BOOLEAN :
        LET me == [NoTask EXCEPT !.kind = "inv", !.url = url, !.file = file]
            current_queue_size == IF pending_lock THEN pending_requests ELSE 0 IN
        IF not_ready
        THEN /\ resp' = [status |-> "503", pos |-> 0]
             /\ UNCHANGED task
        ELSE IF ~url /\ ~file
        THEN /\ resp' = [status |-> "400", pos |-> 0]
             /\ UNCHANGED task
        ELSE /\ task' = [task EXCEPT ![r] = [me EXCEPT !.pc = "created"]]
             /\ resp' = [status |-> "accepted", pos |-> current_queue_size + 1]
    /\ UNCHANGED <<appvars, semvars, pending_requests, worker>>
    /\ UNCHANGED <<report, collectvars, batchvars, alignvars, scalevars>>

\* process_request_background(): first run of the task created by
\* invocations, up to its first suspension point.  "async with pending_lock"
\* never suspends: the lock is only held across the statement inside it.
BgStart(r) ==
    /\ task[r].kind = "inv"
    /\ task[r].pc = "created"
    /\ IF ~pending_lock \/ ~gpu_semaphore \/ ~service
       THEN /\ task' = [task EXCEPT ![r] = NoTask]
            /\ UNCHANGED <<semvars, pending_requests>>
       ELSE LET a == acquire(sem_value, sem_waiters, r) IN
            /\ sem_value' = a.value
            /\ sem_waiters' = a.waiters
            /\ pending_requests' =
                 IF a.entered THEN (pending_requests + 1) - 1
                 ELSE pending_requests + 1
            /\ task' = [task EXCEPT ![r].pc =
                          IF a.entered THEN "run" ELSE "wait"]
    /\ UNCHANGED <<appvars, resp, worker>>
    /\ UNCHANGED <<report, collectvars, batchvars, alignvars, scalevars>>

\* process_request_background(): the semaphore future was granted; the
\* counter is decremented and process starts in the thread pool.
BgResume(r) ==
    /\ task[r].kind = "inv"
    /\ task[r].pc = "wait"
    /\ FutOf(r) = "granted"
    /\ LET a == acquire_resume(sem_value, sem_waiters, r) IN
        /\ sem_value' = a.value
        /\ sem_waiters' = a.waiters
    /\ pending_requests' = pending_requests - 1
    /\ task' = [task EXCEPT ![r].pc = "run"]
    /\ UNCHANGED <<appvars, resp, worker>>
    /\ UNCHANGED <<report, collectvars, batchvars, alignvars, scalevars>>

\* process_request_background(): process finished; the slot is released,
\* and "except Exception" decrements the counter for a failed job.
BgFinish(r) ==
    /\ task[r].kind = "inv"
    /\ task[r].pc = "run"
    /\ \E outcome \in ProcessOutcomes(task[r].url) :
        LET a == aexit(sem_value, sem_waiters, outcome) IN
        /\ pending_requests' =
             IF outcome = "ok" THEN pending_requests ELSE pending_requests - 1
        /\ sem_value' = a.value
        /\ sem_waiters' = a.waiters
    /\ task' = [task EXCEPT ![r] = NoTask]
    /\ UNCHANGED <<appvars, resp, worker>>
    /\ UNCHANGED <<report, collectvars, batchvars, alignvars, scalevars>>

\* ---- specification ----------------------------------------------------------

Next ==
    \/ Startup
    \/ ShutdownBegin
    \/ ShutdownEnd
    \/ WorkerCollect
    \/ WorkerResume
    \/ WorkerFinish
    \/ WorkerCancelled
    \/ WorkerThreadDone
    \/ \E r \in Req : Transcribe(r)
    \/ \E r \in Req : SyncResume(r)
    \/ \E r \in Req : SyncFinish(r)
    \/ \E r \in Req : Invocations(r)
    \/ \E r \in Req : BgStart(r)

Spec == Init /\ [][Next]_vars

NextPending ==
    \/ Next
    \/ \E r \in Req : BgResume(r)
    \/ \E r \in Req : BgFinish(r)

SpecPending == InitPending /\ [][NextPending]_vars

\* ---- gate accounting ----------------------------------------------------------

\* a task holds a slot from the moment the slot is taken for it (by its own
\* acquire, or by the release that granted its future) until it leaves
\* "async with".
Holders ==
    {r \in Req : task[r].pc = "run"}
        \cup (IF worker.pc = "run" THEN {WORKER} ELSE {})
        \cup {t \in Tasks : FutOf(t) = "granted"}

Blocked == {t \in Tasks : FutOf(t) = "pending"}

\* the Semaphore object exists once lifespan has passed main.py line 199.
SemCreated == phase # "init" /\ ~(phase = "failed" /\ ~service)

\* C1: in every reachable state the operations holding a slot of the GPU
\* semaphore (synchronous requests, background jobs and queue-worker batches
\* together) number at most max_concurrency.
C1_AtMostN == Cardinality(Holders) <= MAX_CONCURRENCY

\* all slots are held, one of them by a synchronous request, the worker is
\* at the gate as well, and somebody is blocked.
C1_Witness ==
    /\ Cardinality(Holders) = MAX_CONCURRENCY
    /\ \E r \in Req : task[r].kind = "sync" /\ r \in Holders \cup Blocked
    /\ WORKER \in Holders \cup Blocked
    /\ Blocked # {}

C3_AcquireReleasePaired ==
    SemCreated =>
        /\ sem_value + Cardinality(Holders) = MAX_CONCURRENCY
        /\ sem_value <= MAX_CONCURRENCY
        /\ (Holders = {} => sem_value = MAX_CONCURRENCY)

\* a synchronous request that took a slot has failed with a 500 and the
\* gate is completely free again.
C3_Witness ==
    /\ resp.status = "500"
    /\ SemCreated
    /\ Holders = {}
    /\ sem_value = MAX_CONCURRENCY

\* ---- fairness: the event loop runs every coroutine whose future is done,
\* ---- and every call running in the thread pool returns.
Fairness ==
    /\ \A r \in Req : WF_vars(SyncResume(r)) /\ WF_vars(SyncFinish(r))
                        /\ WF_vars(BgStart(r))
    /\ WF_vars(WorkerResume)
    /\ WF_vars(WorkerFinish)
    /\ WF_vars(WorkerCancelled)

FairSpec == Spec /\ Fairness

InRegion(t) == IF t = WORKER THEN worker.pc = "run" ELSE task[t].pc = "run"

\* C4 as stated: every caller blocked on the GPU semaphore eventually
\* acquires a slot.
C4_EveryWaiterAcquires ==
    \A t \in Tasks : (t \in Blocked) ~> InRegion(t)

\* C4 (amended): every caller blocked on the GPU semaphore eventually
\* acquires a slot, except the queue worker when shutdown cancels it while
\* it waits; no waiter starves while other callers keep arriving.
C4_NoStarvation ==
    \A t \in Tasks :
        (t \in Blocked) ~> (InRegion(t) \/ (t = WORKER /\ worker.pc = "cancelled"))

\* a request that was blocked has been handed a slot while another caller
\* is still blocked behind it.
C4_Witness ==
    \E r \in Req : FutOf(r) = "granted" /\ Blocked # {}

\* ---- pending counter ------------------------------------------------------------

\* jobs accepted by /invocations that have not acquired a gate slot.
NotYetAcquired ==
    {r \in Req : task[r].kind = "inv" /\ task[r].pc \in {"created", "wait"}}

\* C5: in every reachable state the pending counter equals the number of
\* jobs accepted through /invocations that have not yet acquired a slot.
C5_PendingCounts ==
    pending_requests = Cardinality(NotYetAcquired)

\* C6: the queue_position returned for a job is 1 plus the number of
\* previously accepted jobs that have not yet acquired a gate slot.
C6_QueuePosition ==
    [][\A r \in Req :
         (task[r].pc = "idle" /\ task'[r].kind = "inv")
            => resp'.pos = 1 + Cardinality(NotYetAcquired)]_vars

\* ---- handlers -------------------------------------------------------------------

\* C7: a valid /invocations submission is answered "accepted" in the step
\* of the handler itself, which neither takes a slot nor queues at the gate,
\* whatever the state of the gate.
C7_AcceptedWithoutGate ==
    [][\A r \in Req :
         (task[r].pc = "idle" /\ task'[r].kind = "inv")
            => /\ resp'.status = "accepted"
               /\ task'[r].pc = "created"
               /\ sem_value' = sem_value
               /\ sem_waiters' = sem_waiters]_vars

\* a job has just been accepted while no slot is free and a caller is
\* blocked at the gate.
C7_Witness ==
    /\ resp.status = "accepted"
    /\ \E r \in Req : task[r].kind = "inv" /\ task[r].pc = "created"
    /\ sem_value = 0
    /\ Cardinality(Holders) = MAX_CONCURRENCY
    /\ Blocked # {}

\* C8: the background task of an accepted job ends only after it has held a
\* gate slot and run the transcription pipeline.
C8_AcceptedJobsRun ==
    [][\A r \in Req :
         (task[r].kind = "inv" /\ task'[r].kind = "none")
            => task[r].pc = "run"]_vars

\* C9: a synchronous submission takes a gate slot or waits for one only if
\* exactly one of audio_url / audio_file is present.
C9_ExactlyOneSource ==
    \A r \in Req :
        (task[r].kind = "sync" /\ task[r].pc \in {"wait", "run", "run_nogate"})
            => (task[r].url # task[r].file)

\* C10: while the transcription service is not initialised no request is
\* admitted (no slot taken or queued for, counter unchanged, no background
\* task) and a handler that answers answers 503.
C10_NotReady503 ==
    [][~service =>
         /\ \A r \in Req : task[r].pc = "idle" => task'[r].pc = "idle"
         /\ (task' = task /\ resp' # resp)
               => /\ resp'.status = "503"
                  /\ sem_value' = sem_value
                  /\ sem_waiters' = sem_waiters
                  /\ pending_requests' = pending_requests]_vars

\* a request was answered 503 after shutdown cleared the service.
C10_Witness ==
    /\ resp.status = "503"
    /\ ~service
    /\ phase = "stopped"

\* ---- queue consumer: _collect_job_batch (main.py) -----------------------------
\* One clock tick is the trickle sleep, asyncio.sleep(0.01).  A pop that
\* finds a payload, and every step that does not wait, takes no time.

PayloadKinds ==
    {"valid", "invalid_json", "undecodable", "not_object",
     "request_not_object", "invalid_fields"}

\* the exception a payload makes _parse_job_payload raise inside its "try":
\* payload.decode(), json.loads, job.get on a non-dict, ** on a non-mapping
\* "request", TranscriptionRequest(...) on missing or ill-typed fields.
payload_exception(kind) ==
    CASE kind = "undecodable" -> "UnicodeDecodeError"
      [] kind = "invalid_json" -> "JSONDecodeError"
      [] kind = "not_object" -> "AttributeError"
      [] kind = "request_not_object" -> "TypeError"
      [] kind = "invalid_fields" -> "ValidationError"
      [] OTHER -> "none"

\* "except (json.JSONDecodeError, UnicodeDecodeError, ValidationError)"
CaughtByParse == {"JSONDecodeError", "UnicodeDecodeError", "ValidationError"}

\* _parse_job_payload: a request model, None, or an escaping exception.
parse_job_payload(payload) ==
    LET exc == payload_exception(payload.kind) IN
    [request_model |-> exc = "none",
     raised |-> exc \notin CaughtByParse \cup {"none"}]

has_room_unchecked(b) == TRUE

\* "len(batch) < MAX_BATCH_SIZE"
has_room(b) == Len(b) < MAX_BATCH_SIZE

before_deadline_unchecked(now, dl) == TRUE

\* "asyncio.get_running_loop().time() < deadline"
before_deadline(now, dl) == now < dl

\* "if request_model is not None: batch.append((job_id, request_model))"
append_job(b, payload) ==
    IF parse_job_payload(payload).request_model THEN Append(b, payload.id) ELSE b

\* "return batch" at time now, seen from queue_worker: an empty batch starts
\* the next cycle at once, a non-empty one goes to _process_job_batch.
ReturnBatch(b, now) ==
    IF b = <<>>
    THEN /\ collect_pc' = "brpop"
         /\ batch' = <<>>
         /\ elapsed' = 0
         /\ deadline' = 0
    ELSE /\ collect_pc' = "process"
         /\ batch' = b
         /\ elapsed' = now
         /\ UNCHANGED deadline

\* an exception escapes _collect_job_batch: queue_worker only catches
\* CancelledError, the worker task ends with the exception.
WorkerDies ==
    /\ collect_pc' = "faulted"
    /\ batch' = <<>>
    /\ UNCHANGED <<elapsed, deadline>>

\* BRPOP or RPOP raises a RedisError (connection lost, timeout of the
\* socket): the exception escapes _collect_job_batch and queue_worker, the
\* worker task ends with it and the list is as it was.
PopRaises ==
    /\ collect_pc' = "redis_error"
    /\ batch' = <<>>
    /\ UNCHANGED <<elapsed, deadline>>

lpop(list) == [payload |-> list[Len(list)], rest |-> SubSeq(list, 1, Len(list) - 1)]

\* LPUSH adds at the left end of the list, RPOP and BRPOP take from its
\* right end; the left end is the end of the sequence, Head its right end.
lpush(list, payload) == Append(list, payload)
rpop(list) == [payload |-> Head(list), rest |-> Tail(list)]

\* a producer pushes a payload (submit_job).
Push ==
    /\ collect_pc # "off"
    /\ pushed < MaxPush
    /\ \E kind \in PayloadKinds :
        redis_queue' = lpush(redis_queue, [id |-> pushed + 1, kind |-> kind])
    /\ pushed' = pushed + 1
    /\ UNCHANGED <<batch, collect_pc, elapsed, deadline, consumed>>
    /\ UNCHANGED <<gatevars, batchvars, alignvars, scalevars>>

\* step 1: a tick passes while BRPOP blocks on the empty list.
BrpopWait ==
    /\ collect_pc = "brpop"
    /\ redis_queue = <<>>
    /\ elapsed < QUEUE_BRPOP_TIMEOUT
    /\ elapsed' = elapsed + 1
    /\ UNCHANGED <<redis_queue, pushed, batch, collect_pc, deadline, consumed>>
    /\ UNCHANGED <<gatevars, batchvars, alignvars, scalevars>>

\* step 1: BRPOP returns, with a payload or with nothing at its timeout,
\* and the coroutine runs on to its next await.
Brpop ==
    /\ collect_pc = "brpop"
    /\ \/ PopRaises /\ UNCHANGED <<redis_queue, consumed>>
       \/ IF redis_queue = <<>>
          THEN /\ elapsed = QUEUE_BRPOP_TIMEOUT
               /\ ReturnBatch(batch, elapsed)
               /\ UNCHANGED <<redis_queue, consumed>>
          ELSE LET payload == rpop(redis_queue).payload
                   b == append_job(batch, payload) IN
               /\ redis_queue' = rpop(redis_queue).rest
               /\ consumed' = append_job(consumed, payload)
               /\ IF parse_job_payload(payload).raised
                  THEN WorkerDies
                  ELSE IF has_room(b)
                  THEN /\ collect_pc' = "drain"
                       /\ batch' = b
                       /\ UNCHANGED <<elapsed, deadline>>
                  ELSE ReturnBatch(b, elapsed)
    /\ UNCHANGED pushed
    /\ UNCHANGED <<gatevars, batchvars, alignvars, scalevars>>

\* step 2: one RPOP of the drain loop returns.  On an empty list the loop
\* breaks, step 3 sets its deadline and, if time is left, issues its first
\* RPOP.
DrainRpop ==
    /\ collect_pc = "drain"
    /\ \/ PopRaises /\ UNCHANGED <<redis_queue, consumed>>
       \/ IF redis_queue = <<>>
          THEN /\ UNCHANGED <<redis_queue, consumed>>
               /\ IF has_room(batch)
                       /\ before_deadline(elapsed, elapsed + BATCH_TIMEOUT)
                  THEN /\ collect_pc' = "trickle"
                       /\ deadline' = elapsed + BATCH_TIMEOUT
                       /\ UNCHANGED <<batch, elapsed>>
                  ELSE ReturnBatch(batch, elapsed)
          ELSE LET payload == rpop(redis_queue).payload
                   b == append_job(batch, payload) IN
               /\ redis_queue' = rpop(redis_queue).rest
               /\ consumed' = append_job(consumed, payload)
               /\ IF parse_job_payload(payload).raised
                  THEN WorkerDies
                  ELSE IF has_room(b)
                  THEN /\ batch' = b
                       /\ UNCHANGED <<collect_pc, elapsed, deadline>>
                  ELSE ReturnBatch(b, elapsed)
    /\ UNCHANGED pushed
    /\ UNCHANGED <<gatevars, batchvars, alignvars, scalevars>>

\* step 3: one RPOP of the trickle loop returns; on an empty list the
\* coroutine goes to sleep.
TrickleRpop ==
    /\ collect_pc = "trickle"
    /\ \/ PopRaises /\ UNCHANGED <<redis_queue, consumed>>
       \/ IF redis_queue = <<>>
          THEN /\ collect_pc' = "sleep"
               /\ UNCHANGED <<redis_queue, batch, elapsed, deadline, consumed>>
          ELSE LET payload == rpop(redis_queue).payload
                   b == append_job(batch, payload) IN
               /\ redis_queue' = rpop(redis_queue).rest
               /\ consumed' = append_job(consumed, payload)
               /\ IF parse_job_payload(payload).raised
                  THEN WorkerDies
                  ELSE IF has_room(b) /\ before_deadline(elapsed, deadline)
                  THEN /\ batch' = b
                       /\ UNCHANGED <<collect_pc, elapsed, deadline>>
                  ELSE ReturnBatch(b, elapsed)
    /\ UNCHANGED pushed
    /\ UNCHANGED <<gatevars, batchvars, alignvars, scalevars>>

\* step 3: asyncio.sleep(0.01) is over, one tick later; "continue" tests
\* the loop condition again.
TrickleSleep ==
    /\ collect_pc = "sleep"
    /\ IF has_room(batch) /\ before_deadline(elapsed + 1, deadline)
       THEN /\ collect_pc' = "trickle"
            /\ elapsed' = elapsed + 1
            /\ UNCHANGED <<batch, deadline>>
       ELSE ReturnBatch(batch, elapsed + 1)
    /\ UNCHANGED <<redis_queue, pushed, consumed>>
    /\ UNCHANGED <<gatevars, batchvars, alignvars, scalevars>>

\* _process_job_batch returns (the batch has been executed), or an
\* unexpected fault escapes it and ends the worker task.
Process ==
    /\ collect_pc = "process"
    /\ \E outcome \in {"ok", "fault"} :
        IF outcome = "ok"
        THEN /\ collect_pc' = "brpop"
             /\ batch' = <<>>
             /\ elapsed' = 0
             /\ deadline' = 0
        ELSE WorkerDies
    /\ UNCHANGED <<redis_queue, pushed, consumed>>
    /\ UNCHANGED <<gatevars, batchvars, alignvars, scalevars>>

\* the application after a successful Startup with the queue worker on.
Serving ==
    /\ phase = "serving"
    /\ service = TRUE
    /\ gpu_semaphore = TRUE
    /\ sem_value = initial_slots
    /\ sem_waiters = <<>>
    /\ pending_lock = FALSE
    /\ lock_owner = None
    /\ lock_waiters = <<>>
    /\ pending_requests = 0
    /\ queue_worker_enabled = TRUE
    /\ task = [r \in Req |-> NoTask]
    /\ resp = NoResp
    /\ worker = [pc |-> "collect", batch |-> 0, cancel |-> FALSE, thread |-> FALSE]
    /\ redis_ping = "ok"
    /\ report = NoReport

\* queue_worker has just been started: its first BRPOP is issued.
CollectInit ==
    /\ Serving
    /\ ScaleIdle
    /\ redis_queue = <<>>
    /\ pushed = 0
    /\ batch = <<>>
    /\ collect_pc = "brpop"
    /\ elapsed = 0
    /\ deadline = 0
    /\ consumed = <<>>
    /\ BatchIdle
    /\ AlignIdle

CollectNext ==
    \/ Push
    \/ BrpopWait
    \/ Brpop
    \/ DrainRpop
    \/ TrickleRpop
    \/ TrickleSleep
    \/ Process

CollectSpec == CollectInit /\ [][CollectNext]_vars

Collecting == collect_pc \in {"brpop", "drain", "trickle", "sleep"}

\* C11: every payload that fails deserialization or schema validation is
\* discarded alone: the step that pops it neither requeues it nor changes
\* the batch, and the consumer keeps running.
C11_MalformedDiscarded ==
    [][(/\ redis_queue # <<>>
        /\ redis_queue' = Tail(redis_queue)
        /\ Head(redis_queue).kind # "valid")
            => (collect_pc' # "faulted" /\ batch' = batch)]_vars

\* C12: the batch under collection, and so every batch _collect_job_batch
\* returns, has at most MAX_BATCH_SIZE jobs, whatever arrives and whenever.
C12_BatchSizeBounded == Len(batch) <= MAX_BATCH_SIZE

\* a full batch was returned from the trickle phase while another valid
\* payload was already waiting in the list.
C12_Witness ==
    /\ collect_pc = "process"
    /\ Len(batch) = MAX_BATCH_SIZE
    /\ deadline > 0
    /\ \E i \in 1..Len(redis_queue) : redis_queue[i].kind = "valid"

\* C13: a collection cycle is over within brpop-timeout + batch-timeout
\* ticks of the start of its blocking wait; it never waits with a full
\* batch or with its time budget spent.
C13_CollectionBounded ==
    /\ elapsed <= QUEUE_BRPOP_TIMEOUT + BATCH_TIMEOUT
    /\ Len(batch) = MAX_BATCH_SIZE => ~Collecting
    /\ collect_pc \in {"trickle", "sleep"}
          => (elapsed < deadline
                /\ deadline <= QUEUE_BRPOP_TIMEOUT + BATCH_TIMEOUT)

\* a single job arrived at the last tick of the blocking wait, nothing
\* followed, and the batch of size 1 was returned exactly at the bound.
C13_Witness ==
    /\ collect_pc = "process"
    /\ Len(batch) = 1
    /\ redis_queue = <<>>
    /\ pushed = 1
    /\ elapsed = QUEUE_BRPOP_TIMEOUT + BATCH_TIMEOUT

\* ---- batch executor: process_batch (services/transcription_service.py) ------

JobIds == 1..MaxPush

NoResponse == [job |-> 0]
NoError == [job |-> 0, stage |-> "none"]

\* a request: the job it belongs to, whether its audio can be fetched and
\* normalised, whether its transcription succeeds, and its
\* dispatcher_endpoint: "none" when it has none, else whether building and
\* sending the POST works ("ok") or raises ("error").  What a request would
\* do in a stage it never reaches is left out.
Requests ==
    {r \in [id : JobIds, prep_ok : BOOLEAN, gpu_ok : BOOLEAN,
            dispatch : {"none", "ok", "error"}] :
        /\ ~r.prep_ok => r.gpu_ok
        /\ ~(r.prep_ok /\ r.gpu_ok) => r.dispatch = "none"}

\* the batches queue_worker passes on: 1..MAX_BATCH_SIZE distinct jobs.
Batches ==
    UNION {{b \in [1..n -> Requests] :
              \A i, j \in 1..n : i # j => b[i].id # b[j].id}
           : n \in 1..MAX_BATCH_SIZE}

\* _preprocess(index, request): "except Exception" turns a failure into the
\* fifth component of the tuple.
preprocess(index, request) ==
    [index |-> index,
     request |-> request,
     prep_error |-> IF request.prep_ok THEN NoError
                    ELSE [job |-> request.id, stage |-> "prep"]]

\* list.sort(key=index): insertion of one tuple behind every tuple whose
\* index is not larger (the sort is stable).
RECURSIVE insert_by_index(_, _)
insert_by_index(sorted, x) ==
    IF sorted = <<>> THEN <<x>>
    ELSE IF Head(sorted).index <= x.index
    THEN <<Head(sorted)>> \o insert_by_index(Tail(sorted), x)
    ELSE <<x>> \o sorted

sort_by_index_skipped(seq) == seq

\* prep_results.sort(key=lambda r: r[0]) / results.sort(key=lambda item: item[0])
RECURSIVE sort_by_index(_)
sort_by_index(seq) ==
    IF seq = <<>> THEN <<>>
    ELSE insert_by_index(sort_by_index(SubSeq(seq, 1, Len(seq) - 1)),
                         seq[Len(seq)])

\* whether the body of the Phase 2 loop calls _process_single_prepared.
runs_compute_always(prep) == TRUE

runs_compute(prep) == prep.prep_error = NoError

send_to_dispatcher_unguarded(request) ==
    [raised |-> request.dispatch = "error", posted |-> request.dispatch = "ok"]

\* _send_to_dispatcher: the URL, model_dump() and the POST are all inside
\* "try ... except Exception", which only logs.
send_to_dispatcher(request) ==
    [raised |-> FALSE, posted |-> request.dispatch = "ok"]

\* _process_single_prepared, and the same steps of process: transcribe,
\* build the response, send it to the dispatcher when the request names one.
process_single_prepared(request) ==
    IF ~request.gpu_ok
    THEN [response |-> NoResponse, posted |-> FALSE,
          error |-> [job |-> request.id, stage |-> "compute"]]
    ELSE LET sent == IF request.dispatch # "none"
                     THEN send_to_dispatcher(request)
                     ELSE [raised |-> FALSE, posted |-> FALSE] IN
         IF sent.raised
         THEN [response |-> NoResponse, posted |-> FALSE,
               error |-> [job |-> request.id, stage |-> "dispatch"]]
         ELSE [response |-> [job |-> request.id], posted |-> sent.posted,
               error |-> NoError]

\* TranscriptionService.process: the synchronous path prepares the audio
\* itself; every exception is logged and raised again.
process(request) ==
    IF ~request.prep_ok
    THEN [response |-> NoResponse, posted |-> FALSE,
          error |-> [job |-> request.id, stage |-> "prep"]]
    ELSE process_single_prepared(request)

caught_in_prep_only(stage) == stage = "prep"

\* "except Exception" of _preprocess and of the Phase 2 loop: whatever stage
\* of a job raised, the exception becomes part of that job's tuple.
caught(stage) == stage \in {"prep", "compute", "dispatch"}

\* one iteration of the Phase 2 loop: the entry appended to "results".
result_entry(prep) ==
    IF ~runs_compute(prep)
    THEN [index |-> prep.index, response |-> NoResponse,
          error |-> prep.prep_error]
    ELSE LET r == process_single_prepared(prep.request) IN
         [index |-> prep.index, response |-> r.response, error |-> r.error]

\* Phase 1: as_completed yields the future of request i (any order) and its
\* tuple is appended to prep_results.
PrepDone(i) ==
    /\ batch_pc = "prep"
    /\ i \in 1..Len(batch_requests)
    /\ \A k \in 1..Len(completion_order) : completion_order[k] # i - 1
    /\ prep_results' = Append(prep_results, preprocess(i - 1, batch_requests[i]))
    /\ completion_order' = Append(completion_order, i - 1)
    /\ UNCHANGED <<batch_requests, results, computed, batch_pc, in_compute,
                   dispatched, sync_result>>
    /\ UNCHANGED <<gatevars, collectvars, alignvars, scalevars>>

\* all futures are done: the executor is left and prep_results is sorted.
PrepSort ==
    /\ batch_pc = "prep"
    /\ Len(prep_results) = Len(batch_requests)
    /\ prep_results' = sort_by_index(prep_results)
    /\ batch_pc' = "compute"
    /\ UNCHANGED <<batch_requests, completion_order, results, computed,
                   in_compute, dispatched, sync_result>>
    /\ UNCHANGED <<gatevars, collectvars, alignvars, scalevars>>

\* the item the Phase 2 loop is at: the items before it have their entry in
\* results, or their call is open.
loop_position == Len(results) + Cardinality(in_compute) + 1

may_start_any_time(running) == TRUE

\* the Phase 2 loop is one thread calling _process_single_prepared
\* synchronously: it is at the top of an iteration only when no call is open.
may_start(running) == running = {}

\* Phase 2: the loop reaches a prepared job and calls
\* _process_single_prepared for it.
ComputeStart ==
    /\ batch_pc = "compute"
    /\ Len(results) < Len(prep_results)
    /\ may_start(in_compute)
    /\ loop_position <= Len(prep_results)
    /\ LET prep == prep_results[loop_position] IN
        /\ runs_compute(prep)
        /\ in_compute' = in_compute \cup {prep.request.id}
        /\ computed' = Append(computed, prep.request.id)
    /\ UNCHANGED <<batch_requests, prep_results, completion_order, results,
                   batch_pc, dispatched, sync_result>>
    /\ UNCHANGED <<gatevars, collectvars, alignvars, scalevars>>

\* Phase 2: the rest of one iteration: the call returns or raises (or the
\* job is skipped for its preparation error) and the entry is appended to
\* results; an exception nothing catches leaves process_batch.
ComputeJob ==
    /\ batch_pc = "compute"
    /\ Len(results) < Len(prep_results)
    /\ LET prep == prep_results[Len(results) + 1]
           entry == result_entry(prep) IN
        /\ runs_compute(prep) => prep.request.id \in in_compute
        /\ in_compute' = in_compute \ {prep.request.id}
        /\ dispatched' = IF runs_compute(prep)
                             /\ process_single_prepared(prep.request).posted
                         THEN dispatched \cup {[path |-> "batch",
                                                 job |-> prep.request.id]}
                         ELSE dispatched
        /\ IF caught(entry.error.stage) \/ entry.error = NoError
           THEN /\ results' = Append(results, entry)
                /\ UNCHANGED batch_pc
           ELSE /\ batch_pc' = "raised"
                /\ UNCHANGED results
    /\ UNCHANGED <<batch_requests, prep_results, completion_order, computed,
                   sync_result>>
    /\ UNCHANGED <<gatevars, collectvars, alignvars, scalevars>>

\* the loop is over: results is sorted and returned.
BatchReturn ==
    /\ batch_pc = "compute"
    /\ Len(results) = Len(prep_results)
    /\ results' = sort_by_index(results)
    /\ batch_pc' = "done"
    /\ UNCHANGED <<batch_requests, prep_results, completion_order, computed,
                   in_compute, dispatched, sync_result>>
    /\ UNCHANGED <<gatevars, collectvars, alignvars, scalevars>>

\* the service is then called for one request on the synchronous path
\* (TranscriptionService.process, from the transcribe handler).
ProcessSync ==
    /\ batch_pc = "done"
    /\ sync_result = NoResult
    /\ \E request \in Requests :
        /\ request.id = 1
        /\ sync_result' = [called |-> TRUE, request |-> request,
                           outcome |-> process(request)]
        /\ dispatched' = IF process(request).posted
                         THEN dispatched \cup {[path |-> "sync",
                                                 job |-> request.id]}
                         ELSE dispatched
    /\ UNCHANGED <<batch_requests, prep_results, completion_order, results,
                   computed, batch_pc, in_compute>>
    /\ UNCHANGED <<gatevars, collectvars, alignvars, scalevars>>

\* process_batch has been called with a non-empty batch and has submitted
\* every request to its thread pool.
BatchInit ==
    /\ Serving
    /\ ScaleIdle
    /\ CollectIdle
    /\ AlignIdle
    /\ batch_requests \in Batches
    /\ prep_results = <<>>
    /\ completion_order = <<>>
    /\ results = <<>>
    /\ computed = <<>>
    /\ batch_pc = "prep"
    /\ in_compute = {}
    /\ dispatched = {}
    /\ sync_result = NoResult

BatchNext ==
    \/ \E i \in 1..MAX_BATCH_SIZE : PrepDone(i)
    \/ PrepSort
    \/ ComputeStart
    \/ ComputeJob
    \/ BatchReturn
    \/ ProcessSync

BatchSpec == BatchInit /\ [][BatchNext]_vars

\* "for (job_id, _), (_, _, error) in zip(jobs, results)" of
\* _process_job_batch: the outcome logged for each job id.
job_outcomes ==
    [i \in 1..(IF Len(batch_requests) < Len(results)
               THEN Len(batch_requests) ELSE Len(results)) |->
        [job_id |-> batch_requests[i].id, error |-> results[i].error]]

\* what process_batch returns for a batch when nothing completes out of
\* order.
process_batch_in_order(reqs) ==
    [i \in 1..Len(reqs) |-> result_entry(preprocess(i - 1, reqs[i]))]

PrepOk(req) == req.prep_ok

\* position of the job of batch_requests[i] among the jobs whose preparation
\* succeeds.
RankAmongPrepared(i) ==
    Cardinality({k \in 1..i : batch_requests[k].prep_ok})

\* C14: when any subset of the jobs of a batch fails preparation,
\* process_batch still returns one entry per job; a failed job's entry
\* carries its own preparation error and no response, compute is not run
\* for it, and every other job's entry has the response and error it has
\* in the batch without the failing jobs.
C14_PrepFailureIsolated ==
    batch_pc = "done" =>
        /\ Len(results) = Len(batch_requests)
        /\ \A i \in 1..Len(batch_requests) :
             LET req == batch_requests[i]
                 without == process_batch_in_order(
                                SelectSeq(batch_requests, PrepOk)) IN
             IF ~req.prep_ok
             THEN /\ results[i].error = [job |-> req.id, stage |-> "prep"]
                  /\ results[i].response = NoResponse
                  /\ \A k \in 1..Len(computed) : computed[k] # req.id
             ELSE /\ results[i].response = without[RankAmongPrepared(i)].response
                  /\ results[i].error = without[RankAmongPrepared(i)].error

\* a full batch has been returned in which the first job failed preparation
\* and a later job was transcribed.
C14_Witness ==
    /\ batch_pc = "done"
    /\ Len(batch_requests) = MAX_BATCH_SIZE
    /\ ~batch_requests[1].prep_ok
    /\ \E i \in 2..Len(results) : results[i].response # NoResponse
    /\ computed # <<>>

\* C15: whatever the completion order of the parallel preparation, the i-th
\* entry process_batch returns has index i (counted from 0) and holds the
\* response or the error of the i-th job of the batch, so the pairing of
\* _process_job_batch logs each outcome under the job that produced it.
C15_ResultsInBatchOrder ==
    batch_pc = "done" =>
        /\ Len(results) = Len(batch_requests)
        /\ \A i \in 1..Len(batch_requests) :
             LET id == batch_requests[i].id IN
             /\ results[i].index = i - 1
             /\ \/ results[i].response = [job |-> id] /\ results[i].error = NoError
                \/ results[i].response = NoResponse /\ results[i].error.job = id
             /\ job_outcomes[i].job_id = id
             /\ job_outcomes[i].error.job \in {0, id}

\* a full batch has been returned whose preparations completed in the
\* reverse of the assembly order.
C15_Witness ==
    /\ batch_pc = "done"
    /\ Len(batch_requests) = MAX_BATCH_SIZE
    /\ \A k \in 1..Len(completion_order) :
          completion_order[k] = Len(completion_order) - k
    /\ \E i \in 1..Len(results) : results[i].error # NoError

\* ---- batch granularity of the gate (queue worker, main.py) ---------------------

\* C16: the queue worker acquires the GPU semaphore once per non-empty
\* batch, whatever its size, holds that one slot for as long as the batch
\* is being executed, and gives it back once, in the step in which
\* process_batch returns or an unexpected fault escapes it.
C16_OneSlotPerBatch ==
    [][/\ (worker.pc = "collect" /\ worker'.pc = "run")
            => (sem_value' = sem_value - 1 /\ sem_waiters' = sem_waiters)
       /\ (worker.pc = "collect" /\ worker'.pc = "wait")
            => (sem_value' = sem_value
                  /\ Len(sem_waiters') = Len(sem_waiters) + 1)
       /\ worker'.thread => (worker'.pc = "run" /\ WORKER \in Holders')
       /\ (worker.pc = "run" /\ worker'.pc # "run")
            => (/\ ~worker'.thread
                /\ WORKER \notin Holders'
                /\ sem_value' + Cardinality(Holders') = MAX_CONCURRENCY)]_vars

\* ---- alignment engine (utils/transcription_utils.py, services/stt_service.py) --
\* Times are whole seconds.  A string is a sequence of string tokens.

Speakers == {"SPEAKER_1", "SPEAKER_2"}

\* the text of the whisper segment with id i
SegmentText(i) == <<"t" \o ToString(i)>>

Intervals == {<<a, b>> \in (0..MaxTime) \X (0..MaxTime) : a < b}

\* what segment_to_dataframe yields for the segments of one transcription:
\* ids 0, 1, ... in time order, each segment ending before the next begins.
TextFrames ==
    UNION {{[i \in 1..n |-> [id |-> i - 1, start |-> iv[i][1],
                             end |-> iv[i][2], text |-> SegmentText(i - 1)]]
              : iv \in {f \in [1..n -> Intervals] :
                          \A i \in 1..(n - 1) : f[i][2] <= f[i + 1][1]}}
           : n \in 0..MaxSeg}

\* what DiarizationService.diarize yields: the tracks of the annotation in
\* the order of itertracks (by start, then end), each with a speaker label.
SpeakerFrames ==
    UNION {{[i \in 1..n |-> [start |-> iv[i][1], end |-> iv[i][2],
                             speaker |-> sp[i]]]
              : iv \in {f \in [1..n -> Intervals] :
                          \A i \in 1..(n - 1) :
                              \/ f[i][1] < f[i + 1][1]
                              \/ f[i][1] = f[i + 1][1] /\ f[i][2] <= f[i + 1][2]},
                sp \in [1..n -> Speakers]}
           : n \in 0..MaxTurn}

\* STTService.transcribe: text += segment.text + " ", then strip().
RECURSIVE plain_text(_)
plain_text(segments) ==
    IF segments = <<>> THEN <<>>
    ELSE IF Len(segments) = 1 THEN segments[1].text
    ELSE segments[1].text \o <<" ">> \o plain_text(Tail(segments))

overlaps_always(seg, turn) == TRUE

\* overlap_mask: ~((text_df["end"] < start) | (text_df["start"] > end))
overlaps(seg, turn) == ~(seg.end < turn.start \/ seg.start > turn.end)

Min(a, b) == IF a < b THEN a ELSE b
Max(a, b) == IF a > b THEN a ELSE b

\* the rows one speaker turn contributes to overlap_list, with the columns
\* added up to overlap_duration.
RECURSIVE this_overlap_texts(_, _)
this_overlap_texts(segments, turn) ==
    IF segments = <<>> THEN <<>>
    ELSE LET seg == Head(segments)
             rest == this_overlap_texts(Tail(segments), turn) IN
         IF overlaps(seg, turn)
         THEN <<[id |-> seg.id, start |-> seg.start, end |-> seg.end,
                 text |-> seg.text,
                 speaker_start |-> turn.start, speaker_end |-> turn.end,
                 speaker |-> turn.speaker,
                 overlap_duration |-> Min(seg.end, turn.end)
                                        - Max(seg.start, turn.start)]>> \o rest
         ELSE rest

\* pd.concat(overlap_list): the rows of all turns, in turn order.
RECURSIVE all_overlaps(_, _)
all_overlaps(segments, turns) ==
    IF turns = <<>> THEN <<>>
    ELSE this_overlap_texts(segments, Head(turns))
            \o all_overlaps(segments, Tail(turns))

idxmax_last(rows, id) ==
    CHOOSE k \in 1..Len(rows) :
        /\ rows[k].id = id
        /\ \A j \in 1..Len(rows) : rows[j].id = id =>
              /\ rows[j].overlap_duration <= rows[k].overlap_duration
              /\ (j > k => rows[j].overlap_duration < rows[k].overlap_duration)

\* groupby("id")["overlap_duration"].idxmax() for one id: the first row of
\* the group that has the largest overlap_duration.
idxmax(rows, id) ==
    CHOOSE k \in 1..Len(rows) :
        /\ rows[k].id = id
        /\ \A j \in 1..Len(rows) : rows[j].id = id =>
              /\ rows[j].overlap_duration <= rows[k].overlap_duration
              /\ (j < k => rows[j].overlap_duration < rows[k].overlap_duration)

\* all_overlaps.loc[max_overlap_indices, :] with the groups in ascending id.
RECURSIVE select_max_overlap(_, _, _)
select_max_overlap(rows, id, last_id) ==
    IF id > last_id THEN <<>>
    ELSE (IF \E k \in 1..Len(rows) : rows[k].id = id
          THEN <<rows[idxmax(rows, id)]>> ELSE <<>>)
            \o select_max_overlap(rows, id + 1, last_id)

\* combine_whisper_and_pyannote; the empty DataFrame is the empty sequence.
combine_whisper_and_pyannote(segments, turns) ==
    select_max_overlap(all_overlaps(segments, turns), 0, Len(segments) - 1)

NaN == 0 - 1

join_text_no_space(previous_text, this_text) == previous_text \o this_text

\* previous_text + " " + text
join_text(previous_text, this_text) == previous_text \o <<" ">> \o this_text

new_start_of_first(df, counter) == df[1].start

\* new_start = text_speaker_df["start"].iloc[counter - 1]
new_start(df, counter) == df[counter - 1].start

\* the loop "for counter in range(1, n_iter)"; counter is a position from 2.
RECURSIVE merge_loop(_, _)
merge_loop(df, counter) ==
    IF counter > Len(df) THEN df
    ELSE IF df[counter].speaker = df[counter - 1].speaker
    THEN merge_loop(
            [df EXCEPT ![counter].start = new_start(df, counter),
                       ![counter].text = join_text(df[counter - 1].text,
                                                   df[counter].text),
                       ![counter - 1].start = NaN,
                       ![counter - 1].end = NaN],
            counter + 1)
    ELSE merge_loop(df, counter + 1)

NotNaN(row) == row.start # NaN /\ row.end # NaN

dropna_skipped(df) == df

\* DataFrame.dropna()
dropna(df) == SelectSeq(df, NotNaN)

\* .loc[:, ["start", "end", "text", "speaker"]]
RECURSIVE loc_columns(_)
loc_columns(df) ==
    IF df = <<>> THEN <<>>
    ELSE <<[start |-> Head(df).start, end |-> Head(df).end,
            text |-> Head(df).text, speaker |-> Head(df).speaker]>>
            \o loc_columns(Tail(df))

RECURSIVE insert_by_start(_, _)
insert_by_start(sorted, row) ==
    IF sorted = <<>> THEN <<row>>
    ELSE IF Head(sorted).start <= row.start
    THEN <<Head(sorted)>> \o insert_by_start(Tail(sorted), row)
    ELSE <<row>> \o sorted

\* sort_values("start"); rows with equal start keep their order.
RECURSIVE sort_values_start(_)
sort_values_start(df) ==
    IF df = <<>> THEN <<>>
    ELSE insert_by_start(sort_values_start(SubSeq(df, 1, Len(df) - 1)),
                         df[Len(df)])

\* combine_consecutive_speakers
combine_consecutive_speakers(df) ==
    sort_values_start(loc_columns(dropna(merge_loop(df, 2))))

\* time.strftime("%H:%M:%S", time.gmtime(np.round(t, 2)))
hms(t) == ToString(t)

\* format_diarized_text: one line per row.
RECURSIVE format_diarized_text(_)
format_diarized_text(df) ==
    IF df = <<>> THEN <<>>
    ELSE <<Head(df).speaker, ": [", hms(Head(df).start), " - ",
           hms(Head(df).end), "]--">> \o Head(df).text \o <<"\n">>
            \o format_diarized_text(Tail(df))

has_rows_unchecked(df) == TRUE

\* "len(diarization_df) > 0", "len(full_df) > 0"
has_rows(df) == Len(df) > 0

\* process_with_diarization, from the transcription to its return value.
\* combine_consecutive_speakers selects the columns start, end, text and
\* speaker: on the DataFrame without columns that stands for "no overlap"
\* the selection raises KeyError.
ProcessWithDiarization ==
    /\ align_pc = "called"
    /\ LET full == IF has_rows(speaker_df)
                   THEN combine_whisper_and_pyannote(text_df, speaker_df)
                   ELSE <<>>
           combined == IF has_rows(full)
                       THEN combine_consecutive_speakers(full)
                       ELSE <<>> IN
        /\ text' = plain_text(text_df)
        /\ full_df' = full
        /\ IF has_rows(full) /\ full = <<>>
           THEN /\ align_pc' = "raised"
                /\ UNCHANGED <<combine_text, diarized_output>>
           ELSE /\ align_pc' = "returned"
                /\ combine_text' = combined
                /\ diarized_output' = IF has_rows(full)
                                      THEN format_diarized_text(combined)
                                      ELSE plain_text(text_df)
    /\ UNCHANGED <<text_df, speaker_df, tracks, seg_info_list>>
    /\ UNCHANGED <<gatevars, collectvars, batchvars, scalevars>>

\* process_with_diarization has been called for an audio with its
\* diarization result; the segments are what whisper will return for it.
AlignInit ==
    /\ Serving
    /\ ScaleIdle
    /\ CollectIdle
    /\ BatchIdle
    /\ text_df \in TextFrames
    /\ speaker_df \in SpeakerFrames
    /\ full_df = <<>>
    /\ combine_text = <<>>
    /\ diarized_output = <<>>
    /\ text = <<>>
    /\ align_pc = "called"
    /\ tracks = <<>>
    /\ seg_info_list = <<>>

AlignNext == ProcessWithDiarization

AlignSpec == AlignInit /\ [][AlignNext]_vars

\* ---- alignment: what the engine is expected to compute -------------------------

\* position i begins / position j ends a maximal run of equal speakers.
IsRunStart(df, i) == i = 1 \/ df[i].speaker # df[i - 1].speaker
IsRunEnd(df, j) == j = Len(df) \/ df[j + 1].speaker # df[j].speaker

RunStarts(df) == {i \in 1..Len(df) : IsRunStart(df, i)}

\* the end of the maximal run that begins at i.
RunEnd(df, i) ==
    CHOOSE j \in i..Len(df) :
        IsRunEnd(df, j) /\ \A k \in i..(j - 1) : ~IsRunEnd(df, k)

\* the texts of rows i..j joined by single spaces.
RECURSIVE TextsJoined(_, _, _)
TextsJoined(df, i, j) ==
    IF i >= j THEN df[i].text
    ELSE df[i].text \o <<" ">> \o TextsJoined(df, i + 1, j)

\* C17: combine_consecutive_speakers replaces every maximal run of
\* consecutive entries with the same speaker by one entry, in order: its
\* start is the run's first start, its end the run's last end, its text
\* the run's texts joined by single spaces.
C17_RunsMerged ==
    (align_pc = "returned" /\ Len(full_df) > 0) =>
        /\ Len(combine_text) = Cardinality(RunStarts(full_df))
        /\ \A i \in RunStarts(full_df) :
             LET j == RunEnd(full_df, i)
                 k == Cardinality({r \in RunStarts(full_df) : r <= i}) IN
             combine_text[k] = [start |-> full_df[i].start,
                                end |-> full_df[j].end,
                                speaker |-> full_df[i].speaker,
                                text |-> TextsJoined(full_df, i, j)]

\* the first two segments got the same speaker and were merged into one
\* entry "t0 t1"; a later segment of another speaker stays on its own.
C17_Witness ==
    /\ align_pc = "returned"
    /\ Len(full_df) >= 3
    /\ full_df[1].speaker = full_df[2].speaker
    /\ full_df[2].speaker # full_df[3].speaker
    /\ combine_text[1].text = <<"t0", " ", "t1">>
    /\ Len(combine_text) = Len(full_df) - 1

\* the turns a segment overlaps (closed intervals) and the overlap duration.
OverlappingTurns(seg) ==
    {k \in 1..Len(speaker_df) :
        ~(seg.end < speaker_df[k].start \/ seg.start > speaker_df[k].end)}

Duration(seg, k) ==
    Min(seg.end, speaker_df[k].end) - Max(seg.start, speaker_df[k].start)

\* the first turn, in turn order, of maximum overlap duration.
BestTurn(seg) ==
    CHOOSE k \in OverlappingTurns(seg) :
        \A j \in OverlappingTurns(seg) :
            /\ Duration(seg, j) <= Duration(seg, k)
            /\ (j < k => Duration(seg, j) < Duration(seg, k))

Assigned == {i \in 1..Len(text_df) : OverlappingTurns(text_df[i]) # {}}
Unassigned == {i \in 1..Len(text_df) : OverlappingTurns(text_df[i]) = {}}

\* C18: combine_whisper_and_pyannote gives every segment that overlaps at
\* least one turn (boundary touches count) the turn of maximum overlap
\* duration, the first in turn order on ties; the result has exactly one
\* row per such segment, in ascending segment id.
C18_MaxOverlapAssigned ==
    (align_pc = "returned" /\ Len(speaker_df) > 0) =>
        /\ Len(full_df) = Cardinality(Assigned)
        /\ \A r \in 1..(Len(full_df) - 1) : full_df[r].id < full_df[r + 1].id
        /\ \A i \in Assigned :
             \E r \in 1..Len(full_df) :
                LET seg == text_df[i]
                    turn == speaker_df[BestTurn(seg)] IN
                /\ full_df[r].id = seg.id
                /\ full_df[r].start = seg.start
                /\ full_df[r].end = seg.end
                /\ full_df[r].text = seg.text
                /\ full_df[r].speaker = turn.speaker
                /\ full_df[r].speaker_start = turn.start
                /\ full_df[r].speaker_end = turn.end
                /\ full_df[r].overlap_duration = Duration(seg, BestTurn(seg))

\* a segment overlaps two turns of different speakers by the same duration
\* and got the speaker of the first; another segment overlaps its turn by
\* more than it overlaps the turn before.
C18_Witness ==
    /\ align_pc = "returned"
    /\ \E i \in Assigned :
          /\ Cardinality(OverlappingTurns(text_df[i])) = 2
          /\ \A j, k \in OverlappingTurns(text_df[i]) :
                Duration(text_df[i], j) = Duration(text_df[i], k)
          /\ \E j, k \in OverlappingTurns(text_df[i]) :
                speaker_df[j].speaker # speaker_df[k].speaker
          /\ \E r \in 1..Len(full_df) :
                /\ full_df[r].id = text_df[i].id
                /\ full_df[r].speaker = speaker_df[1].speaker
                /\ full_df[r].speaker # speaker_df[2].speaker

Contains(string, token) == \E k \in 1..Len(string) : string[k] = token

\* C19 as stated: a segment that overlaps no speaker turn has no row and no
\* text in the diarized output, and its text is in the plain transcript.
C19_UnassignedDropped ==
    align_pc = "returned" =>
        \A i \in Unassigned :
            /\ \A r \in 1..Len(full_df) : full_df[r].id # text_df[i].id
            /\ ~Contains(diarized_output, text_df[i].text[1])
            /\ Contains(text, text_df[i].text[1])

\* C19 (amended): when at least one segment overlaps a turn, a segment that
\* overlaps no turn has no row and no text in the aligned output, and its
\* text is in the plain transcript; when no segment overlaps any turn the
\* diarized output is the plain transcript itself.
C19_UnassignedDroppedUnlessPlain ==
    align_pc = "returned" =>
        IF Assigned # {}
        THEN \A i \in Unassigned :
                /\ \A r \in 1..Len(full_df) : full_df[r].id # text_df[i].id
                /\ \A r \in 1..Len(combine_text) :
                      ~Contains(combine_text[r].text, text_df[i].text[1])
                /\ ~Contains(diarized_output, text_df[i].text[1])
                /\ Contains(text, text_df[i].text[1])
        ELSE diarized_output = text /\ text = plain_text(text_df)

\* one segment overlaps no turn while another got a speaker, and the
\* diarized output was built from the aligned rows.
C19_Witness ==
    /\ align_pc = "returned"
    /\ Unassigned # {}
    /\ Assigned # {}
    /\ Len(combine_text) > 0
    /\ diarized_output = format_diarized_text(combine_text)

\* C20: the consecutive-speaker merge is idempotent: applied to its own
\* output it returns the same entries, and no two adjacent entries of its
\* output share a speaker.
C20_MergeIdempotent ==
    align_pc = "returned" =>
        /\ combine_consecutive_speakers(combine_text) = combine_text
        /\ \A r \in 1..(Len(combine_text) - 1) :
              combine_text[r].speaker # combine_text[r + 1].speaker

\* the last two of three segments were merged, so the output has a merged
\* entry behind an entry of the other speaker.
C20_Witness ==
    /\ align_pc = "returned"
    /\ Len(full_df) = 3
    /\ full_df[1].speaker # full_df[2].speaker
    /\ full_df[2].speaker = full_df[3].speaker
    /\ Len(combine_text) = 2
    /\ combine_text[2].start = full_df[2].start
    /\ combine_text[2].end = full_df[3].end

\* ---- control plane (gpu_queue_api.py) -------------------------------------

SIGNAL_DELAY == 1         \* asyncio.sleep(5) of the simulated RunPod calls

\* time.time() after dt more ticks.  The clock is only read in
\* "time.time() - idle_start_time >= QUEUE_IDLE_TIMEOUT": its origin is kept
\* at the present while idle_start_time is None, and it is not advanced
\* beyond the instant the idle timer expires.
time_after(dt) ==
    IF idle_start_time = None THEN clock
    ELSE Min(clock + dt, idle_start_time + QUEUE_IDLE_TIMEOUT)

\* lifespan up to "yield": ping Redis, start the autoscaler when
\* RUNPOD_AUTOSCALER_ENABLED is set and the RunPod key and pod id are given.
ControlStartup ==
    /\ control_phase = "init"
    /\ \E ping \in {"ok", "auth_error", "redis_error"}, enabled \in BOOLEAN :
        /\ control_ping' = ping
        /\ IF ping_raises(ping)
           THEN /\ control_phase' = "failed"
                /\ UNCHANGED autoscaler_task
           ELSE /\ control_phase' = "serving"
                /\ autoscaler_task' = IF enabled THEN "llen" ELSE "None"
    /\ UNCHANGED <<queue_depth, queue_length, clock, idle_start_time,
                   shutdown_requested, pod_running, scale_downs>>
    /\ UNCHANGED <<gatevars, collectvars, batchvars, alignvars>>

\* lifespan after "yield": the autoscaler task is cancelled at the await it
\* is suspended in and awaited, the Redis client is closed.
ControlShutdown ==
    /\ control_phase = "serving"
    /\ control_phase' = "stopped"
    /\ autoscaler_task' = IF autoscaler_task = "None" THEN "None" ELSE "cancelled"
    /\ UNCHANGED <<control_ping, queue_depth, queue_length, clock,
                   idle_start_time, shutdown_requested, pod_running, scale_downs>>
    /\ UNCHANGED <<gatevars, collectvars, batchvars, alignvars>>

\* POST /jobs: LPUSH of one payload; when the push raises the handler
\* answers 500 and the list is as before.
submit_job ==
    /\ control_phase = "serving"
    /\ queue_depth < MaxDepth
    /\ \E lpush_ok \in BOOLEAN :
        queue_depth' = IF lpush_ok THEN queue_depth + 1 ELSE queue_depth
    /\ UNCHANGED <<control_phase, control_ping, autoscaler_task, queue_length,
                   clock, idle_start_time, shutdown_requested, pod_running,
                   scale_downs>>
    /\ UNCHANGED <<gatevars, collectvars, batchvars, alignvars>>

\* a worker process takes one payload off the list (BRPOP / RPOP).
Consume ==
    /\ control_phase = "serving"
    /\ queue_depth > 0
    /\ queue_depth' = queue_depth - 1
    /\ UNCHANGED <<control_phase, control_ping, autoscaler_task, queue_length,
                   clock, idle_start_time, shutdown_requested, pod_running,
                   scale_downs>>
    /\ UNCHANGED <<gatevars, collectvars, batchvars, alignvars>>

already_requested_ignored(requested) == FALSE

\* "if not shutdown_requested" guards the call of trigger_runpod_shutdown.
already_requested(requested) == requested

idle_timeout_ignored == idle_start_time # None

\* the idle timer has run for QUEUE_IDLE_TIMEOUT.
idle_timeout_reached ==
    idle_start_time # None /\ clock - idle_start_time >= QUEUE_IDLE_TIMEOUT

\* "if not pod_running" guards the call of trigger_runpod_start.
needs_start_always(running) == TRUE

needs_start(running) == ~running

\* where the loop is after LLEN has raised: the except branch sleeps for the
\* poll interval and continues with the next iteration.
after_llen_error_raised == "failed"

after_llen_error == "sleep"

\* pod_running after trigger_runpod_shutdown has returned.
trigger_runpod_shutdown_skipped(running) == running

trigger_runpod_shutdown(running) == IF ~running THEN running ELSE FALSE

trigger_runpod_start_skipped(running) == running

\* pod_running after trigger_runpod_start has returned.
trigger_runpod_start(running) == IF running THEN running ELSE TRUE

\* one iteration of queue_autoscaler_loop from the return of LLEN to its
\* next await: the poll sleep, or the sleep inside trigger_runpod_shutdown /
\* trigger_runpod_start.  queue_length keeps None when LLEN raised.
Sample ==
    /\ autoscaler_task = "llen"
    /\ \E llen_ok \in BOOLEAN :
        IF ~llen_ok
        THEN /\ queue_length' = None
             /\ autoscaler_task' = after_llen_error
             /\ UNCHANGED <<clock, idle_start_time, shutdown_requested, scale_downs>>
        ELSE /\ queue_length' = queue_depth
             /\ IF queue_depth = 0
                THEN IF idle_start_time = None
                     THEN /\ idle_start_time' = clock
                          /\ autoscaler_task' = "sleep"
                          /\ UNCHANGED <<clock, shutdown_requested, scale_downs>>
                     ELSE IF idle_timeout_reached
                               /\ ~already_requested(shutdown_requested)
                     THEN /\ scale_downs' = scale_downs + 1
                          /\ IF ~pod_running
                             THEN /\ shutdown_requested' = TRUE
                                  /\ autoscaler_task' = "sleep"
                             ELSE /\ autoscaler_task' = "stopping"
                                  /\ UNCHANGED shutdown_requested
                          /\ UNCHANGED <<clock, idle_start_time>>
                     ELSE /\ autoscaler_task' = "sleep"
                          /\ UNCHANGED <<clock, idle_start_time,
                                         shutdown_requested, scale_downs>>
                ELSE /\ idle_start_time' = None
                     /\ clock' = 0
                     /\ shutdown_requested' = FALSE
                     /\ scale_downs' = 0
                     /\ autoscaler_task' = IF needs_start(pod_running)
                                           THEN "starting" ELSE "sleep"
    /\ UNCHANGED <<control_phase, control_ping, queue_depth, pod_running>>
    /\ UNCHANGED <<gatevars, collectvars, batchvars, alignvars>>

\* trigger_runpod_shutdown after its sleep, and the loop up to the poll sleep.
ShutdownDone ==
    /\ autoscaler_task = "stopping"
    /\ pod_running' = trigger_runpod_shutdown(pod_running)
    /\ shutdown_requested' = TRUE
    /\ clock' = time_after(SIGNAL_DELAY)
    /\ autoscaler_task' = "sleep"
    /\ UNCHANGED <<control_phase, control_ping, queue_depth, queue_length,
                   idle_start_time, scale_downs>>
    /\ UNCHANGED <<gatevars, collectvars, batchvars, alignvars>>

\* trigger_runpod_start after its sleep, and the loop up to the poll sleep.
StartDone ==
    /\ autoscaler_task = "starting"
    /\ pod_running' = trigger_runpod_start(pod_running)
    /\ clock' = time_after(SIGNAL_DELAY)
    /\ autoscaler_task' = "sleep"
    /\ UNCHANGED <<control_phase, control_ping, queue_depth, queue_length,
                   idle_start_time, shutdown_requested, scale_downs>>
    /\ UNCHANGED <<gatevars, collectvars, batchvars, alignvars>>

\* asyncio.sleep(QUEUE_POLL_INTERVAL) is over and the next LLEN is issued.
PollSleep ==
    /\ autoscaler_task = "sleep"
    /\ clock' = time_after(QUEUE_POLL_INTERVAL)
    /\ autoscaler_task' = "llen"
    /\ UNCHANGED <<control_phase, control_ping, queue_depth, queue_length,
                   idle_start_time, shutdown_requested, pod_running, scale_downs>>
    /\ UNCHANGED <<gatevars, collectvars, batchvars, alignvars>>

\* both processes are about to boot: the module globals of gpu_queue_api.py
\* have their initial values.
ScaleInit ==
    /\ InitApp(FALSE)
    /\ CollectIdle
    /\ BatchIdle
    /\ AlignIdle
    /\ control_phase = "init"
    /\ control_ping = "none"
    /\ autoscaler_task = "None"
    /\ queue_depth = 0
    /\ queue_length = None
    /\ clock = 0
    /\ idle_start_time = None
    /\ shutdown_requested = FALSE
    /\ pod_running = FALSE
    /\ scale_downs = 0

ScaleNext ==
    \/ Startup
    \/ ControlStartup
    \/ ControlShutdown
    \/ submit_job
    \/ Consume
    \/ Sample
    \/ ShutdownDone
    \/ StartDone
    \/ PollSleep

ScaleSpec == ScaleInit /\ [][ScaleNext]_vars

\* C21: once the sampled depth has been 0 for QUEUE_IDLE_TIMEOUT the
\* autoscaler calls trigger_runpod_shutdown exactly once; it calls it at
\* most once between two samples with depth > 0, and only when the idle
\* timer, started after the last such sample, has run its full time.
C21_OneScaleDownPerIdlePeriod ==
    /\ [](scale_downs <= 1)
    /\ []((/\ autoscaler_task = "sleep"
           /\ queue_length = 0
           /\ idle_timeout_reached) => scale_downs = 1)
    /\ [][scale_downs' > scale_downs =>
            /\ queue_length' = 0
            /\ idle_timeout_reached
            /\ ~shutdown_requested
            /\ scale_downs = 0]_vars

\* the backend was started for a job, the queue then stayed empty for the
\* idle timeout and the one scale-down of this idle period has stopped it;
\* a later zero sample found nothing more to do.
C21_Witness ==
    /\ autoscaler_task = "sleep"
    /\ queue_length = 0
    /\ idle_timeout_reached
    /\ shutdown_requested
    /\ ~pod_running
    /\ scale_downs = 1
    /\ control_ping = "ok"

PingFailures == {"auth_error", "redis_error"}

\* C22: when the ping of the queue backend at boot fails (unreachable or
\* not authenticated), lifespan raises before its yield: the process is
\* never serving, and the queue worker task (worker process) or the
\* autoscaler task (control plane) is never created.
C22_BootFailsWithoutQueue ==
    /\ redis_ping \in PingFailures =>
          /\ phase = "failed"
          /\ worker.pc = "none"
    /\ control_ping \in PingFailures =>
          /\ control_phase = "failed"
          /\ autoscaler_task = "None"

\* the worker process could not reach Redis and the control plane was
\* refused by it: both have failed to start.
C22_Witness ==
    /\ redis_ping = "redis_error"
    /\ control_ping = "auth_error"
    /\ phase = "failed"
    /\ control_phase = "failed"

\* ---- queue status report (controllers/queue.py) ---------------------------

available_slots_static(semaphore, value, max_concurrency) == max_concurrency

\* "gpu_semaphore._value if gpu_semaphore is not None else max_concurrency"
available_slots(semaphore, value, max_concurrency) ==
    IF semaphore THEN value ELSE max_concurrency

\* queue_status: the report it builds from app.state; app.state.max_concurrency
\* and its default settings.max_concurrency are the same number.
queue_status ==
    LET max_concurrency == MAX_CONCURRENCY
        available == available_slots(gpu_semaphore, sem_value, max_concurrency) IN
    [max_concurrency |-> max_concurrency,
     available_slots |-> available,
     requests_in_queue |-> pending_requests,
     active_requests |-> IF gpu_semaphore THEN max_concurrency - available ELSE 0,
     sent |-> TRUE]

\* GET /queue_status, a handler without a suspension point (there is no
\* pending lock to wait for): it reads the gate and answers.
QueueStatus ==
    /\ phase = "serving"
    /\ report' = queue_status
    /\ UNCHANGED <<appvars, semvars, pending_requests, task, resp, worker>>
    /\ UNCHANGED <<collectvars, batchvars, alignvars, scalevars>>

\* the application with the router of controllers/queue.py included.
StatusNext == Next \/ QueueStatus

StatusSpec == Init /\ [][StatusNext]_vars

ReportConsistent(r) ==
    /\ r.available_slots + r.active_requests = r.max_concurrency
    /\ r.max_concurrency = MAX_CONCURRENCY
    /\ 0 <= r.available_slots
    /\ r.available_slots <= r.max_concurrency
    /\ r.active_requests = Cardinality(Holders)

C24_DeadlineFromPhaseA ==
    collect_pc \in {"trickle", "sleep"} =>
        /\ deadline = BATCH_TIMEOUT
        /\ collect_pc = "trickle" => elapsed < BATCH_TIMEOUT

\* C25: jobs are consumed in the order they were enqueued (ids are given in
\* enqueue order): the jobs put into batches so far are in increasing id
\* order, and the batch in hand is the last stretch of them, so of two
\* valid jobs the earlier one is at an earlier position of the same batch
\* or in an earlier batch.
C25_ConsumedInEnqueueOrder ==
    /\ \A i, j \in 1..Len(consumed) : i < j => consumed[i] < consumed[j]
    /\ Len(batch) <= Len(consumed)
    /\ batch = SubSeq(consumed, Len(consumed) - Len(batch) + 1, Len(consumed))

\* three jobs over two batches: the second batch got its job in the trickle
\* phase, after the first batch had been handed over with two jobs.
C25_Witness ==
    /\ consumed = <<1, 2, 3>>
    /\ batch = <<3>>
    /\ collect_pc = "process"
    /\ deadline > 0

\* ---- batch executor: compute phase and delivery ------------------------------

ComputeFails(req) == req.prep_ok /\ ~req.gpu_ok

\* C26: when compute for a prepared job raises, process_batch does not
\* raise; the exception is in that job's entry and in no other, every later
\* prepared job is still computed, and the entries appended before are not
\* changed by a later iteration.
C26_ComputeFailureIsolated ==
    /\ [](batch_pc # "raised")
    /\ [](batch_pc = "done" =>
            \A i \in 1..Len(batch_requests) :
                LET req == batch_requests[i] IN
                /\ ComputeFails(req) =>
                      /\ results[i].error = [job |-> req.id, stage |-> "compute"]
                      /\ results[i].response = NoResponse
                /\ results[i].error.job \in {0, req.id}
                /\ req.prep_ok => \E k \in 1..Len(computed) : computed[k] = req.id
                /\ (req.prep_ok /\ req.gpu_ok) =>
                      /\ results[i].response = [job |-> req.id]
                      /\ results[i].error = NoError)
    /\ [][(batch_pc = "compute" /\ batch_pc' = "compute" /\ results' # results) =>
            /\ Len(results') = Len(results) + 1
            /\ SubSeq(results', 1, Len(results)) = results]_vars

\* a full batch has been returned whose first job raised in compute, and a
\* later job was computed and has its response.
C26_Witness ==
    /\ batch_pc = "done"
    /\ Len(batch_requests) = MAX_BATCH_SIZE
    /\ ComputeFails(batch_requests[1])
    /\ results[1].error.stage = "compute"
    /\ \E i \in 2..Len(results) :
          /\ results[i].response # NoResponse
          /\ \E k \in 1..Len(computed) : computed[k] = batch_requests[i].id

\* ids of the requests of a batch whose preparation succeeds, in the
\* batch's order.
RECURSIVE PreparedIds(_)
PreparedIds(reqs) ==
    IF reqs = <<>> THEN <<>>
    ELSE (IF Head(reqs).prep_ok THEN <<Head(reqs).id>> ELSE <<>>)
             \o PreparedIds(Tail(reqs))

\* C27: within a batch, compute starts only when every job's preparation
\* has finished; the jobs enter compute in the batch's assembly order, a
\* job enters only when the one before it has its entry in results, and
\* at most one job is in compute at any time.
C27_ComputeSequentialInOrder ==
    /\ [](Cardinality(in_compute) <= 1)
    /\ [](computed = SubSeq(PreparedIds(batch_requests), 1, Len(computed)))
    /\ [][computed' # computed =>
            /\ Len(completion_order) = Len(batch_requests)
            /\ Len(prep_results) = Len(batch_requests)
            /\ in_compute = {}
            /\ \A k \in 1..Len(computed) :
                  \E i \in 1..Len(results) :
                      results[i].index + 1 <= Len(batch_requests)
                      /\ batch_requests[results[i].index + 1].id = computed[k]]_vars

\* the second job of a full batch is in compute: the first has completed,
\* though its preparation was the last to finish.
C27_Witness ==
    /\ batch_pc = "compute"
    /\ Len(batch_requests) = MAX_BATCH_SIZE
    /\ completion_order[Len(completion_order)] = 0
    /\ Len(computed) = 2
    /\ in_compute = {batch_requests[2].id}
    /\ Len(results) = 1

DeliveryFails(req) == req.prep_ok /\ req.gpu_ok /\ req.dispatch = "error"

\* C28: for a job with a dispatcher endpoint whose processing succeeded, a
\* failure of the delivery is swallowed: on the synchronous path process
\* returns the response, on the batch path the job's entry has the response
\* and no error, process_batch does not raise and the jobs after it get the
\* outcome they have without it.
C28_DeliveryFailureSwallowed ==
    /\ batch_pc # "raised"
    /\ (sync_result.called /\ DeliveryFails(sync_result.request)) =>
          /\ sync_result.outcome.response = [job |-> sync_result.request.id]
          /\ sync_result.outcome.error = NoError
    /\ batch_pc = "done" =>
          \A i \in 1..Len(batch_requests) :
              DeliveryFails(batch_requests[i]) =>
                  /\ results[i].response = [job |-> batch_requests[i].id]
                  /\ results[i].error = NoError
                  /\ [path |-> "batch", job |-> batch_requests[i].id]
                        \notin dispatched
                  /\ \A j \in (i + 1)..Len(batch_requests) :
                        LET alone == process_batch_in_order(<<batch_requests[j]>>) IN
                        /\ results[j].response = alone[1].response
                        /\ results[j].error = alone[1].error

\* the delivery of the first job of a full batch failed, a later job was
\* delivered, and a synchronous request's delivery failed as well.
C28_Witness ==
    /\ batch_pc = "done"
    /\ Len(batch_requests) = MAX_BATCH_SIZE
    /\ DeliveryFails(batch_requests[1])
    /\ \E j \in 2..Len(batch_requests) :
          [path |-> "batch", job |-> batch_requests[j].id] \in dispatched
    /\ sync_result.called
    /\ DeliveryFails(sync_result.request)

\* ---- alignment: order of the output, and no overlap at all ------------------

\* C29: for time-ordered, non-overlapping segments and any turns, every
\* entry of the merged output has times with start <= end, and each entry
\* ends no later than the next one starts: the output is ordered by start
\* and no two entries share more than an end point.
C29_OutputOrderedDisjoint ==
    align_pc = "returned" =>
        /\ \A r \in 1..Len(combine_text) :
              /\ combine_text[r].start # NaN
              /\ combine_text[r].end # NaN
              /\ combine_text[r].start <= combine_text[r].end
        /\ \A r \in 1..(Len(combine_text) - 1) :
              /\ combine_text[r].start <= combine_text[r + 1].start
              /\ combine_text[r].end <= combine_text[r + 1].start

\* three segments got speakers from two overlapping turns; the first entry
\* of the output is the merge of the first two rows, the second follows it.
C29_Witness ==
    /\ align_pc = "returned"
    /\ Len(full_df) = 3
    /\ Len(speaker_df) = 2
    /\ speaker_df[1].end > speaker_df[2].start
    /\ Len(combine_text) = 2
    /\ combine_text[1].start = full_df[1].start
    /\ combine_text[1].end = full_df[2].end
    /\ combine_text[2].start = full_df[3].start

NoOverlapAtAll ==
    \A i \in 1..Len(text_df), k \in 1..Len(speaker_df) :
        text_df[i].end < speaker_df[k].start \/ text_df[i].start > speaker_df[k].end

\* C30: when there is no turn, or no turn overlaps any segment,
\* process_with_diarization raises nothing and returns, as diarized
\* output, the plain transcript: the texts of all segments in order.
C30_PlainTranscriptWithoutOverlap ==
    /\ align_pc # "raised"
    /\ (align_pc = "returned" /\ NoOverlapAtAll) =>
          /\ diarized_output = text
          /\ text = plain_text(text_df)
          /\ full_df = <<>>
          /\ combine_text = <<>>

\* a segment was transcribed and both turns lie apart from it: the output
\* is the segment's text.
C30_Witness ==
    /\ align_pc = "returned"
    /\ Len(text_df) = 1
    /\ Len(speaker_df) = 2
    /\ NoOverlapAtAll
    /\ diarized_output = text_df[1].text

\* ---- speaker labels (services/diarization_service.py) ---------------------
\* A label is a sequence of tokens: the prefix "SPEAKER_" and decimal digits.

\* the label pyannote gives its k-th speaker: SPEAKER_ and two digits.
ModelLabel(k) == <<"SPEAKER_", k \div 10, k % 10>>

\* str(n) for n >= 0, as digits
RECURSIVE str(_)
str(n) == IF n < 10 THEN <<n>> ELSE str(n \div 10) \o <<n % 10>>

\* int(digits)
RECURSIVE int(_)
int(digits) ==
    IF digits = <<>> THEN 0
    ELSE 10 * int(SubSeq(digits, 1, Len(digits) - 1)) + digits[Len(digits)]

\* str.startswith
startswith(string, prefix) ==
    Len(prefix) <= Len(string) /\ SubSeq(string, 1, Len(prefix)) = prefix

\* the three branches that compute formatted_speaker
format_speaker(speaker) ==
    IF startswith(speaker, <<"SPEAKER_", 0, 0>>) THEN <<"SPEAKER_", 1>>
    ELSE IF startswith(speaker, <<"SPEAKER_", 0>>)
    THEN <<"SPEAKER_">> \o str(int(Tail(speaker)) + 1)
    ELSE speaker

\* one iteration of the loop over itertracks: the row of the next track is
\* appended to seg_info_list.
DiarizeTrack ==
    /\ align_pc = "diarize"
    /\ Len(seg_info_list) < Len(tracks)
    /\ LET track == tracks[Len(seg_info_list) + 1] IN
        seg_info_list' = Append(seg_info_list,
            [start |-> track.start, end |-> track.end,
             speaker |-> format_speaker(track.speaker)])
    /\ UNCHANGED <<text_df, speaker_df, full_df, combine_text,
                   diarized_output, text, align_pc, tracks>>
    /\ UNCHANGED <<gatevars, collectvars, batchvars, scalevars>>

\* the loop is over: the rows are concatenated and returned (an empty
\* DataFrame when there was no track).
DiarizeReturn ==
    /\ align_pc = "diarize"
    /\ Len(seg_info_list) = Len(tracks)
    /\ speaker_df' = seg_info_list
    /\ align_pc' = "diarized"
    /\ UNCHANGED <<text_df, full_df, combine_text, diarized_output, text,
                   tracks, seg_info_list>>
    /\ UNCHANGED <<gatevars, collectvars, batchvars, scalevars>>

\* the annotations of the pipeline: up to MaxTurn tracks, one after the
\* other, each with the label of one of the speakers 0..MaxSpeaker.
Annotations ==
    UNION {{[i \in 1..n |-> [start |-> i - 1, end |-> i,
                             speaker |-> ModelLabel(k[i])]]
              : k \in [1..n -> 0..MaxSpeaker]}
           : n \in 0..MaxTurn}

\* diarize has run the pipeline on an audio and is about to read its tracks.
LabelInit ==
    /\ Serving
    /\ ScaleIdle
    /\ CollectIdle
    /\ BatchIdle
    /\ text_df = <<>>
    /\ speaker_df = <<>>
    /\ full_df = <<>>
    /\ combine_text = <<>>
    /\ diarized_output = <<>>
    /\ text = <<>>
    /\ align_pc = "diarize"
    /\ tracks \in Annotations
    /\ seg_info_list = <<>>

LabelNext == DiarizeTrack \/ DiarizeReturn

LabelSpec == LabelInit /\ [][LabelNext]_vars

\* the 1-based label of a pipeline label: SPEAKER_(k+1) for SPEAKER_kk
\* C31: the label SPEAKER_kk of the pipeline's k-th speaker (k = 0, 1, ...,
\* beyond 9 as well) becomes SPEAKER_(k+1), and two tracks with different
\* pipeline labels never get the same label.
OneBased(speaker) == <<"SPEAKER_">> \o str(int(Tail(speaker)) + 1)

C31_LabelsOneBasedInjective ==
    \A i, j \in 1..Len(seg_info_list) :
        /\ seg_info_list[i].speaker = OneBased(tracks[i].speaker)
        /\ tracks[i].speaker # tracks[j].speaker =>
              seg_info_list[i].speaker # seg_info_list[j].speaker

\* ---- autoscaler: samples and signals (gpu_queue_api.py) -------------------

\* the step is a sample: LLEN has returned a depth and the loop has gone on
\* to its next await.
Sampled == autoscaler_task = "llen" /\ queue_length' # None
               /\ autoscaler_task' \in {"sleep", "stopping", "starting"}

\* C32: trigger_runpod_shutdown is called only by a zero sample taken when
\* the idle timer is set and has run for QUEUE_IDLE_TIMEOUT; the timer is
\* started by a zero sample only, every sample with depth > 0 unsets it, and
\* the zero sample that starts the timer calls nothing.
C32_ScaleDownOnlyAfterFullIdle ==
    [][/\ scale_downs' > scale_downs =>
            /\ Sampled
            /\ queue_length' = 0
            /\ idle_start_time # None
            /\ idle_start_time' = idle_start_time
            /\ clock - idle_start_time >= QUEUE_IDLE_TIMEOUT
       /\ (Sampled /\ queue_length' > 0) => idle_start_time' = None
       /\ (idle_start_time = None /\ idle_start_time' # None) =>
            /\ Sampled
            /\ queue_length' = 0
            /\ scale_downs' = scale_downs
            /\ autoscaler_task' = "sleep"
       /\ (Sampled /\ queue_length' = 0 /\ idle_start_time = None) =>
            /\ idle_start_time' # None
            /\ scale_downs' = scale_downs
            /\ autoscaler_task' = "sleep"]_vars

\* the running backend is being stopped by the scale-down of an idle period
\* that has lasted the full timeout.
C32_Witness ==
    /\ autoscaler_task = "stopping"
    /\ scale_downs = 1
    /\ queue_length = 0
    /\ pod_running
    /\ clock - idle_start_time >= QUEUE_IDLE_TIMEOUT

\* C33: a sample with depth > 0 unsets the idle timer and clears
\* shutdown_requested; it calls trigger_runpod_start exactly when
\* pod_running is False, so no such sample calls it while the backend is
\* marked running.
C33_ScaleUpIffNotRunning ==
    [][(Sampled /\ queue_length' > 0) =>
            /\ idle_start_time' = None
            /\ shutdown_requested' = FALSE
            /\ (autoscaler_task' = "starting") <=> ~pod_running
            /\ pod_running => autoscaler_task' = "sleep"]_vars

\* a sample with depth > 0 has found the backend running and the loop has
\* gone to its poll sleep without a start call.
C33_Witness ==
    /\ autoscaler_task = "sleep"
    /\ queue_length > 0
    /\ pod_running
    /\ idle_start_time = None
    /\ ~shutdown_requested

LoopPositions == {"llen", "sleep", "stopping", "starting"}

\* C34: the autoscaler loop ends only by the cancellation at shutdown; a
\* failed LLEN leaves idle_start_time, shutdown_requested and pod_running as
\* they were and takes the loop to its poll sleep, and the poll sleep is
\* followed by the next LLEN.
C34_LoopSurvivesFailures ==
    [][/\ (autoscaler_task \in LoopPositions
             /\ autoscaler_task' \notin LoopPositions) =>
            /\ autoscaler_task' = "cancelled"
            /\ control_phase' = "stopped"
       /\ (autoscaler_task = "llen" /\ queue_length' = None
             /\ control_phase' = "serving" /\ autoscaler_task' # "llen") =>
            /\ autoscaler_task' = "sleep"
            /\ UNCHANGED <<idle_start_time, shutdown_requested, pod_running>>
       /\ (autoscaler_task = "sleep" /\ autoscaler_task' # "sleep"
             /\ control_phase' = "serving") =>
            autoscaler_task' = "llen"]_vars

\* LLEN has failed while the backend was running and the idle timer was
\* set; the loop is in its poll sleep.
C34_Witness ==
    /\ autoscaler_task = "sleep"
    /\ queue_length = None
    /\ pod_running
    /\ idle_start_time # None

\* ---- autoscaler: liveness (gpu_queue_api.py) ------------------------------

\* a successful sample: LLEN returns the depth.
SampleDepth == Sample /\ queue_length' # None

\* fair polling: every asyncio.sleep of the loop ends, and LLEN does not
\* fail for ever.
ScaleFairness ==
    /\ WF_vars(PollSleep)
    /\ WF_vars(ShutdownDone)
    /\ WF_vars(StartDone)
    /\ SF_vars(SampleDepth)

ScaleFairSpec == ScaleSpec /\ ScaleFairness

Polling == autoscaler_task \in LoopPositions

\* C39: while the autoscaler loop is polling, a depth that stays > 0 with
\* pod_running False leads to pod_running True, and a depth that stays 0
\* with pod_running True leads to pod_running False.
C39_AutoscalerLiveness ==
    /\ (Polling /\ queue_depth > 0 /\ ~pod_running)
          ~> (pod_running \/ queue_depth = 0 \/ ~Polling)
    /\ (Polling /\ queue_depth = 0 /\ pod_running)
          ~> (~pod_running \/ queue_depth > 0 \/ ~Polling)

\* the backend, started for a job, has been stopped again after an idle
\* period while the loop goes on polling.
C39_Witness ==
    /\ Polling
    /\ autoscaler_task = "llen"
    /\ queue_depth = 0
    /\ ~pod_running
    /\ shutdown_requested
    /\ scale_downs = 1

\* C40: whenever shutdown_requested is set, pod_running is False, the idle
\* timer is set and the last depth read was not > 0; the flag is set only
\* after a zero sample.
C40_FlagImpliesStoppedAndIdle ==
    /\ [](shutdown_requested =>
            /\ ~pod_running
            /\ idle_start_time # None
            /\ queue_length \in {0, None})
    /\ [][(~shutdown_requested /\ shutdown_requested') =>
            /\ queue_length' = 0
            /\ autoscaler_task' = "sleep"]_vars

\* the flag is still set at a poll boundary although a job has arrived
\* since the last sample.
C40_Witness ==
    /\ autoscaler_task = "llen"
    /\ shutdown_requested
    /\ ~pod_running
    /\ idle_start_time # None
    /\ queue_length = 0
    /\ queue_depth > 0

\* ---- shutdown of the queue worker (main.py) -------------------------------

\* C35: shutdown cancels the queue worker wherever it waits and the worker
\* ends without a gate slot; teardown completes (the Redis client is closed,
\* the state cleared) only after the worker task has ended; a batch that is
\* in compute when shutdown starts has finished before its slot is given
\* back and before teardown completes.
C35_ShutdownCancelsWorker ==
    /\ phase = "stopped" =>
          /\ worker.pc \in {"none", "cancelled", "faulted"}
          /\ WORKER \notin Holders
          /\ WORKER \notin Blocked
          /\ ~worker.thread
    /\ worker.pc = "cancelled" => (WORKER \notin Holders /\ WORKER \notin Blocked)
    /\ (phase \in {"stopping", "stopped"} /\ worker.thread) =>
          WORKER \in Holders

\* ---- queue errors in the consumer (main.py) -------------------------------

\* C36: a connectivity error raised by a pop does not halt the consumer:
\* the queue worker task never ends with the RedisError of a BRPOP or RPOP.
C36_PopErrorDoesNotHaltWorker == collect_pc # "redis_error"

\* C38: no valid job is lost or duplicated between the list and the
\* executor: a valid job that is popped is appended once to the batch of
\* its cycle, whatever the other pops of the cycle return, and jobs leave
\* the batch only when the non-empty batch has been returned and handed to
\* _process_job_batch, which takes it once.
C38_NoJobLostOrDuplicated ==
    [][/\ consumed' # consumed =>
            /\ batch' = Append(batch, consumed'[Len(consumed')])
            /\ \A i \in 1..Len(batch) : batch[i] # consumed'[Len(consumed')]
       /\ (\E i \in 1..Len(batch) : i > Len(batch') \/ batch'[i] # batch[i]) =>
            /\ collect_pc = "process"
            /\ batch' = <<>>
       /\ (collect_pc # "process" /\ collect_pc' = "process") =>
            (batch' # <<>> /\ (batch' = batch \/ consumed' # consumed))]_vars

\* ---- the pending-counter lock (controllers/transcription.py, queue.py) ----
\* Every statement of the handlers and of process_request_background that
\* touches pending_lock or the semaphore is a step of its own: asyncio only
\* switches tasks at an await that suspends, so its interleavings are among
\* the ones of this specification.

\* Lock._wake_up_first(): the first waiter's future is set unless done.
lock_wake_up_first(waiters) ==
    IF waiters # <<>> /\ waiters[1].fut = "pending"
    THEN [waiters EXCEPT ![1].fut = "granted"]
    ELSE waiters

\* Lock.acquire() up to its first suspension point, called by task t.
lock_acquire(owner, waiters, t) ==
    IF owner = None /\ waiters = <<>>
    THEN [owner |-> t, waiters |-> waiters, entered |-> TRUE]
    ELSE [owner |-> owner,
          waiters |-> Append(waiters, [t |-> t, fut |-> "pending"]),
          entered |-> FALSE]

\* Lock.acquire() after "await fut" returned for task t.
lock_acquire_resume(owner, waiters, t) ==
    [owner |-> t, waiters |-> RemoveWaiter(waiters, t)]

lock_release_skipped(owner, waiters) == [owner |-> owner, waiters |-> waiters]

\* Lock.release(), called by __aexit__ of "async with pending_lock".
lock_release(owner, waiters) ==
    [owner |-> None, waiters |-> lock_wake_up_first(waiters)]

LockFutOf(t) ==
    IF \E i \in 1..Len(lock_waiters) : lock_waiters[i].t = t
    THEN (CHOOSE w \in {lock_waiters[i] : i \in 1..Len(lock_waiters)} : w.t = t).fut
    ELSE "none"

\* the five "async with pending_lock" blocks: the read in invocations, the
\* increment, the decrement inside the gate and the decrement of "except
\* Exception" in process_request_background, the read in queue_size.  Per
\* block: the position before acquire(), suspended in it, and inside it.
want_pc == [submit |-> "want_submit", inc |-> "want_inc", dec |-> "want_dec",
            exc |-> "want_exc", status |-> "want_status"]
wait_pc == [submit |-> "wait_submit", inc |-> "wait_inc", dec |-> "wait_dec",
            exc |-> "wait_exc", status |-> "wait_status"]
held_pc == [submit |-> "held_submit", inc |-> "held_inc", dec |-> "held_dec",
            exc |-> "held_exc", status |-> "held_status"]

Sites == DOMAIN want_pc

\* where the task goes on after the block.
after_pc == [submit |-> "created", inc |-> "gate", dec |-> "run",
             exc |-> "done", status |-> "done"]

\* the statement inside the block.
counter_after(site, n) ==
    CASE site = "inc" -> n + 1
      [] site \in {"dec", "exc"} -> n - 1
      [] OTHER -> n

\* invocations: a valid body has arrived; the handler is about to read the
\* counter under the lock, or creates the background task at once when
\* there is no lock.
LockInvocations(r) ==
    /\ CanArrive(r)
    /\ task' = [task EXCEPT ![r] =
                  [NoTask EXCEPT !.kind = "inv", !.url = TRUE,
                                 !.pc = IF pending_lock THEN want_pc.submit
                                        ELSE "created"]]
    /\ UNCHANGED <<appvars, semvars, pending_requests, resp, worker>>
    /\ UNCHANGED <<report, collectvars, batchvars, alignvars, scalevars>>

\* queue_size: the handler is about to read the counter under the lock, or
\* reads it without a lock and returns.
QueueSize(r) ==
    /\ CanArrive(r)
    /\ task' = [task EXCEPT ![r] =
                  [NoTask EXCEPT !.kind = "status",
                                 !.pc = IF pending_lock THEN want_pc.status
                                        ELSE "done"]]
    /\ UNCHANGED <<appvars, semvars, pending_requests, resp, worker>>
    /\ UNCHANGED <<report, collectvars, batchvars, alignvars, scalevars>>

\* __aenter__ of "async with pending_lock".
LockAcquire(r) ==
    /\ \E site \in Sites :
        /\ task[r].pc = want_pc[site]
        /\ LET a == lock_acquire(lock_owner, lock_waiters, r) IN
            /\ lock_owner' = a.owner
            /\ lock_waiters' = a.waiters
            /\ task' = [task EXCEPT ![r].pc =
                          IF a.entered THEN held_pc[site] ELSE wait_pc[site]]
    /\ UNCHANGED <<lifevars, semvars, pending_requests, resp, worker>>
    /\ UNCHANGED <<report, collectvars, batchvars, alignvars, scalevars>>

\* the lock future of the task was set: acquire() returns.
LockResume(r) ==
    /\ \E site \in Sites :
        /\ task[r].pc = wait_pc[site]
        /\ LockFutOf(r) = "granted"
        /\ LET a == lock_acquire_resume(lock_owner, lock_waiters, r) IN
            /\ lock_owner' = a.owner
            /\ lock_waiters' = a.waiters
        /\ task' = [task EXCEPT ![r].pc = held_pc[site]]
    /\ UNCHANGED <<lifevars, semvars, pending_requests, resp, worker>>
    /\ UNCHANGED <<report, collectvars, batchvars, alignvars, scalevars>>

\* the statement inside "async with pending_lock" and __aexit__.
CounterStep(r) ==
    /\ \E site \in Sites :
        /\ task[r].pc = held_pc[site]
        /\ pending_requests' = counter_after(site, pending_requests)
        /\ LET a == lock_release(lock_owner, lock_waiters) IN
            /\ lock_owner' = a.owner
            /\ lock_waiters' = a.waiters
        /\ task' = [task EXCEPT ![r].pc = after_pc[site]]
    /\ UNCHANGED <<lifevars, semvars, resp, worker>>
    /\ UNCHANGED <<report, collectvars, batchvars, alignvars, scalevars>>

\* process_request_background starts: it returns at once when the lock, the
\* semaphore or the service is missing.
BackgroundStart(r) ==
    /\ task[r].pc = "created"
    /\ task' = [task EXCEPT ![r].pc =
                  IF ~pending_lock \/ ~gpu_semaphore \/ ~service THEN "done"
                  ELSE want_pc.inc]
    /\ UNCHANGED <<appvars, semvars, pending_requests, resp, worker>>
    /\ UNCHANGED <<report, collectvars, batchvars, alignvars, scalevars>>

\* __aenter__ of "async with gpu_semaphore".
GateAcquire(r) ==
    /\ task[r].pc = "gate"
    /\ LET a == acquire(sem_value, sem_waiters, r) IN
        /\ sem_value' = a.value
        /\ sem_waiters' = a.waiters
        /\ task' = [task EXCEPT ![r].pc =
                      IF a.entered THEN want_pc.dec ELSE "gate_wait"]
    /\ UNCHANGED <<appvars, pending_requests, resp, worker>>
    /\ UNCHANGED <<report, collectvars, batchvars, alignvars, scalevars>>

\* the semaphore future of the task was granted.
GateResume(r) ==
    /\ task[r].pc = "gate_wait"
    /\ FutOf(r) = "granted"
    /\ LET a == acquire_resume(sem_value, sem_waiters, r) IN
        /\ sem_value' = a.value
        /\ sem_waiters' = a.waiters
    /\ task' = [task EXCEPT ![r].pc = want_pc.dec]
    /\ UNCHANGED <<appvars, pending_requests, resp, worker>>
    /\ UNCHANGED <<report, collectvars, batchvars, alignvars, scalevars>>

\* run_in_threadpool(process) is over; __aexit__ of the semaphore; an
\* exception goes on to the block of "except Exception".
ComputeDone(r) ==
    /\ task[r].pc = "run"
    /\ task[r].kind = "inv"
    /\ \E outcome \in ProcessOutcomes(task[r].url) :
        LET a == aexit(sem_value, sem_waiters, outcome) IN
        /\ sem_value' = a.value
        /\ sem_waiters' = a.waiters
        /\ task' = [task EXCEPT ![r].pc =
                      IF outcome = "ok" THEN "done" ELSE want_pc.exc]
    /\ UNCHANGED <<appvars, pending_requests, resp, worker>>
    /\ UNCHANGED <<report, collectvars, batchvars, alignvars, scalevars>>

\* the application is serving without a queue worker; app.state has no
\* pending_lock (lifespan as it is) or has one (the state the handlers are
\* written for).
LockInit ==
    /\ phase = "serving"
    /\ service = TRUE
    /\ gpu_semaphore = TRUE
    /\ sem_value = initial_slots
    /\ sem_waiters = <<>>
    /\ pending_lock \in BOOLEAN
    /\ lock_owner = None
    /\ lock_waiters = <<>>
    /\ pending_requests = 0
    /\ queue_worker_enabled = FALSE
    /\ task = [r \in Req |-> NoTask]
    /\ resp = NoResp
    /\ worker = [pc |-> "none", batch |-> 0, cancel |-> FALSE, thread |-> FALSE]
    /\ redis_ping = "none"
    /\ report = NoReport
    /\ CollectIdle
    /\ BatchIdle
    /\ AlignIdle
    /\ ScaleIdle

\* the steps of the tasks that have started.
LockProgress ==
    \E r \in Req :
        \/ LockAcquire(r)
        \/ LockResume(r)
        \/ CounterStep(r)
        \/ BackgroundStart(r)
        \/ GateAcquire(r)
        \/ GateResume(r)
        \/ ComputeDone(r)

LockNext ==
    \/ \E r \in Req : LockInvocations(r)
    \/ \E r \in Req : QueueSize(r)
    \/ \E r \in Req : LockAcquire(r)
    \/ \E r \in Req : LockResume(r)
    \/ \E r \in Req : CounterStep(r)
    \/ \E r \in Req : BackgroundStart(r)
    \/ \E r \in Req : GateAcquire(r)
    \/ \E r \in Req : GateResume(r)
    \/ \E r \in Req : ComputeDone(r)

LockSpec == LockInit /\ [][LockNext]_vars

HeldPcs == {held_pc[site] : site \in Sites}
LockPcs == {want_pc[site] : site \in Sites} \cup {wait_pc[site] : site \in Sites}
               \cup HeldPcs

\* the tasks inside "async with gpu_semaphore" or suspended in its acquire.
AtGate(r) ==
    \/ task[r].pc \in {"gate_wait", "run", want_pc.dec, wait_pc.dec, held_pc.dec}
    \/ FutOf(r) # "none"

\* C37: pending_lock is locked only by a task that is at the statement
\* inside one of the "async with pending_lock" blocks, never by a task that
\* waits for the semaphore or runs compute; a task asks for the lock while
\* it is at the gate only for the decrement inside "async with
\* gpu_semaphore" (semaphore first, lock second); and whenever a started
\* task has not finished, some started task can take a step.
C37_LockHeldForCounterOnly ==
    /\ lock_owner # None =>
          /\ task[lock_owner].pc \in HeldPcs
          /\ task[lock_owner].pc # held_pc.dec =>
                (FutOf(lock_owner) = "none" /\ ~AtGate(lock_owner))
    /\ \A r \in Req :
          /\ task[r].pc \in {"gate", "gate_wait", "run"} => lock_owner # r
          /\ (task[r].pc \in LockPcs /\ AtGate(r)) =>
                task[r].pc \in {want_pc.dec, wait_pc.dec, held_pc.dec}
    /\ (\E r \in Req : task[r].pc \notin {"idle", "done"}) => ENABLED LockProgress

\* a job inside the gate holds the lock for its decrement while another
\* task is suspended in the acquire of the lock.
C37_Witness ==
    /\ pending_lock
    /\ lock_owner # None
    /\ task[lock_owner].pc = held_pc.dec
    /\ sem_value = 0
    /\ \E r \in Req : task[r].pc \in {wait_pc.inc, wait_pc.status, wait_pc.submit}

====
